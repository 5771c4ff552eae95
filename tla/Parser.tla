-------------------------------- MODULE Parser --------------------------------
(***************************************************************************)
(* What the program reads from a captured frame.  A frame is a record: its *)
(* captured length, its radiotap header (rt: version, it_len, the number   *)
(* ext of chained present words, the bits of the first one, the byte of    *)
(* the antenna signal) and the fields of its 802.11 header and elements.   *)
(***************************************************************************)
EXTENDS Integers, Sequences

CONSTANTS
    Addr,           \* the addresses
    GroupAddr,      \* those with the group bit
    NullAddr,       \* 00:00:00:00:00:00
    Threshold       \* rssiThreshold_, in dBm

ASSUME AddrAssumption == GroupAddr \subseteq Addr /\ NullAddr \in Addr /\ Threshold \in Int

-----------------------------------------------------------------------------
(* Radiotap.                                                               *)

aligned_not(off, a) == off      \* mutant
aligned(off, a) == off + ((-off) % a)

\* The offset behind a field, when its bit is set.
behind(present, bit, a, size, off) ==
    IF bit \in present THEN aligned(off, a) + size ELSE off

\* The offsets behind TSFT, Flags, Rate, Channel and FHSS, after the chained
\* present words; the antenna signal, one byte, comes next.
firstField(rt) == 8 + 4 * rt.ext
offsets(rt) ==
    LET p       == rt.present
        tsft    == behind(p, 0, 8, 8, firstField(rt))
        flags   == behind(p, 1, 1, 1, tsft)
        rate    == behind(p, 2, 1, 1, flags)
        channel == behind(p, 3, 2, 4, rate)
        fhss    == behind(p, 4, 2, 2, channel)
    IN  <<tsft, flags, rate, channel, fhss>>
signalOffset(rt) == offsets(rt)[5]

extractRadiotap(f) ==
    /\ f.len >= 8 /\ f.rt.version = 0
    /\ f.rt.len >= 8 /\ f.rt.len <= f.len
    /\ firstField(f.rt) <= f.rt.len
    /\ \A bit \in f.rt.present \cap 0 .. 4 : offsets(f.rt)[bit + 1] <= f.rt.len
    /\ 5 \in f.rt.present /\ signalOffset(f.rt) < f.rt.len

-----------------------------------------------------------------------------
(* Stations (parse).                                                       *)

NoResult == [ok |-> FALSE]
found(sta, ap) == [ok |-> TRUE, sta |-> sta, ap |-> ap]

\* The header is copied whole although only 16 of its bytes are known to be
\* there: the third address is whatever follows when the frame is shorter.
addr3Read(f) == IF f.len >= f.rt.len + 22 THEN {f.addr3} ELSE Addr

isStation(m) == m \notin GroupAddr /\ m # NullAddr

\* The sender of an auth or (re)association frame, unless it is the AP.
management_either(f) == {found(f.addr2, bssid) : bssid \in addr3Read(f)}    \* mutant
management(f) ==
    {IF bssid = f.addr2 THEN NoResult ELSE found(f.addr2, bssid) : bssid \in addr3Read(f)}

\* The end of a QoS data frame that is not the BSSID; none of IBSS and WDS.
data(f) ==
    IF ~f.qos \/ f.null \/ f.toDs = f.fromDs THEN {NoResult}
    ELSE IF f.toDs THEN {found(f.addr2, f.addr1)} ELSE {found(f.addr1, f.addr2)}

\* The results parse may return for f.
parse(f) ==
    LET readable == /\ f.len >= 16 /\ extractRadiotap(f)
                    /\ f.rt.signal >= Threshold /\ f.len >= f.rt.len + 16
        results  == IF ~readable THEN {NoResult}
                    ELSE IF f.kind \in {"auth", "assoc-req", "reassoc-req"} THEN management(f)
                    ELSE IF f.kind = "data" THEN data(f)
                    ELSE {NoResult}
    IN  {IF r.ok /\ isStation(r.sta) THEN r ELSE NoResult : r \in results}

-----------------------------------------------------------------------------
(* Beacons (parseBeacon).                                                  *)

\* The elements that are captured whole, up to the first that is not.
elements(f) ==
    LET end[k \in 0 .. Len(f.ies)] ==
            IF k = 0 THEN f.rt.len + 36 ELSE end[k - 1] + 2 + f.ies[k].len
    IN  {k \in DOMAIN f.ies : end[k] <= f.len}

\* What the last of the elements K says.
lastValue(f, K, default) ==
    IF K = {} THEN default ELSE f.ies[CHOOSE k \in K : \A j \in K : j <= k].value

NoSsid == " "
beaconOk(f) == extractRadiotap(f) /\ f.len >= f.rt.len + 24 /\ f.kind = "beacon"
parseBeacon(f) ==
    LET ids(id) == {k \in elements(f) : f.ies[k].id = id}
    IN  [bssid   |-> f.addr2,
         ssid    |-> lastValue(f, {k \in ids(0) : f.ies[k].len > 0}, NoSsid),
         channel |-> lastValue(f, {k \in ids(3) : f.ies[k].len = 1}, 0)]
=============================================================================
