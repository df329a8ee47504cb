--------------------------- MODULE NetStackProofs ---------------------------
(***************************************************************************)
(* The ARP cache and the echo protocol are right for every number of       *)
(* hosts, cards, cache slots and frames under way, on a network that       *)
(* loses, repeats and reorders frames.                                     *)
(*                                                                         *)
(* The cache: entries are never removed, so the used slots come before the *)
(* unused ones (Packed); therefore the loop of arp_handle_packet, which    *)
(* stops at the first slot that is unused or has the sender's address,     *)
(* never makes a second entry for an address it holds further on.          *)
(* The echo protocol: every frame under way was justified by its sender    *)
(* when it was sent (FrameOK), and what justifies it never goes away.      *)
(* The checksum: adding carries back in keeps the remainder modulo         *)
(* Word - 1, so that the loop's result has a closed form (Residue).        *)
(***************************************************************************)
EXTENDS NetStack, Checksum, FiniteSetTheorems, SequenceTheorems, Arithmetic

CacheEntries == [ip : Hosts, mac : Macs]

Typed ==
  /\ arp_cache \in [Slots -> CacheEntries \cup {NULL}]
  /\ heard \in [Hosts -> Macs \cup {NULL}]
  /\ card \in [Hosts -> Macs]
  /\ asked \in [Hosts -> SUBSET Data]

Filled(i) == arp_cache[i] # NULL

(* The slots are filled from the front.                                    *)
Packed == \A i, j \in Slots : i < j /\ Filled(j) => Filled(i)

(* No address has two entries.                                             *)
Once == \A i, j \in Slots :
          Filled(i) /\ Filled(j) /\ arp_cache[i].ip = arp_cache[j].ip => i = j

(* An entry holds the card heard last, and an address without an entry was *)
(* never heard, or all slots are taken.                                    *)
Fresh == \A h \in Hosts :
           /\ \A i \in Slots : Filled(i) /\ arp_cache[i].ip = h => arp_cache[i].mac = heard[h]
           /\ \/ \E i \in Slots : Filled(i) /\ arp_cache[i].ip = h
              \/ heard[h] = NULL
              \/ \A i \in Slots : Filled(i)

(* What a frame under way says of its sender.                              *)
FrameOK(f) ==
  /\ f.sip \in Hosts \cup {SojebIp}
  /\ f.type = "arp" /\ f.sip # SojebIp => f.smac \in Macs
  /\ f.type = "ipv4" /\ f.op = "echo" =>
       IF f.sip = SojebIp THEN f.tip \in pinged ELSE f.data \in asked[f.sip]
  /\ f.type = "ipv4" /\ f.op = "echoreply" =>
       IF f.sip = SojebIp THEN f.tip \in Hosts /\ f.data \in asked[f.tip]
       ELSE f.tip \in {SojebIp, Broadcast} => f.sip \in pinged

Justified == (\A f \in wire : FrameOK(f)) /\ shown \subseteq pinged

IInv == Typed /\ Packed /\ Once /\ Fresh /\ Justified
-----------------------------------------------------------------------------
(* The first slot at which the loop may stop: the sender's, when it has    *)
(* one, and otherwise the first unused one.                                *)
LEMMA FirstSlot ==
  ASSUME Typed, Packed, Once, NEW ip \in Hosts, ArpSlot(ip) # {}
  PROVE  LET k == Min(ArpSlot(ip))
         IN /\ k \in Slots
            /\ ~Filled(k) \/ arp_cache[k].ip = ip
            /\ \A i \in Slots : i < k => Filled(i)
            /\ \A i \in Slots : Filled(i) /\ arp_cache[i].ip = ip => i = k
<1> DEFINE k == Min(ArpSlot(ip))
<1>1. ArpSlot(ip) \in SUBSET Nat
  BY NetStackAssumption DEF ArpSlot, Slots
<1>2. k \in ArpSlot(ip) /\ \A i \in ArpSlot(ip) : k <= i
  BY <1>1, MinNat
<1> HIDE DEF k
<1>3. k \in Slots /\ (~Filled(k) \/ arp_cache[k].ip = ip)
  BY <1>2 DEF ArpSlot, Filled
<1>4. \A i \in Slots : i < k => Filled(i)
  BY <1>2, <1>3 DEF ArpSlot, Filled, Slots
<1>5. ASSUME NEW i \in Slots, Filled(i), arp_cache[i].ip = ip
      PROVE  i = k
  <2>1. k <= i
    BY <1>2, <1>5 DEF ArpSlot
  <2>2. Filled(k)
    BY <1>3, <1>5, <2>1 DEF Packed, Slots
  <2> QED
    BY <1>3, <1>5, <2>2 DEF Once
<1> QED
  BY <1>3, <1>4, <1>5 DEF k

(* What arp_lookup finds, in terms of the entries.                         *)
LEMMA LookupFinds ==
  ASSUME NEW h \in Hosts
  PROVE  \/ /\ \A i \in Slots : ~(Filled(i) /\ arp_cache[i].ip = h)
            /\ arp_lookup(h) = NULL
         \/ \E i \in Slots : /\ Filled(i) /\ arp_cache[i].ip = h
                             /\ arp_lookup(h) = arp_cache[i].mac
<1> DEFINE at == {i \in Slots : arp_cache[i] # NULL /\ arp_cache[i].ip = h}
<1>1. at \in SUBSET Nat
  BY NetStackAssumption DEF Slots
<1>2. arp_lookup(h) = IF at = {} THEN NULL ELSE arp_cache[Min(at)].mac
  BY DEF arp_lookup
<1>3. CASE at = {}
  BY <1>2, <1>3 DEF Filled
<1>4. CASE at # {}
  <2>1. Min(at) \in at
    BY <1>1, <1>4, MinNat
  <2> HIDE DEF at
  <2>2. arp_lookup(h) = arp_cache[Min(at)].mac
    BY <1>2, <1>4
  <2>3. Min(at) \in Slots /\ Filled(Min(at)) /\ arp_cache[Min(at)].ip = h
    BY <2>1 DEF at, Filled
  <2> QED
    BY <2>2, <2>3
<1> QED
  BY <1>3, <1>4

(* arp_handle_packet keeps the cache in order.                             *)
LEMMA ArpSaveKeeps ==
  ASSUME Typed, Packed, Once, Fresh, NEW f, f.sip \in Hosts, f.smac \in Macs,
         arp_cache' = ArpSave(f), heard' = [heard EXCEPT ![f.sip] = f.smac]
  PROVE  /\ arp_cache' \in [Slots -> CacheEntries \cup {NULL}]
         /\ heard' \in [Hosts -> Macs \cup {NULL}]
         /\ Packed' /\ Once' /\ Fresh'
<1> DEFINE ip == f.sip
           e == [ip |-> f.sip, mac |-> f.smac]
           k == Min(ArpSlot(ip))
<1>1. e \in CacheEntries /\ e # NULL /\ e.ip = ip /\ e.mac = f.smac
  BY NetStackAssumption DEF CacheEntries
<1>2. /\ heard' \in [Hosts -> Macs \cup {NULL}]
      /\ \A h \in Hosts : heard'[h] = IF h = ip THEN f.smac ELSE heard[h]
  BY DEF Typed
<1>3. CASE ArpSlot(ip) = {}
  <2>1. arp_cache' = arp_cache
    BY <1>3 DEF ArpSave
  <2>2. \A i \in Slots : Filled(i) /\ arp_cache[i].ip # ip
    BY <1>3 DEF ArpSlot, Filled
  <2>3. \A i \in Slots : Filled(i)' <=> Filled(i)
    BY <2>1 DEF Filled
  <2>4. Packed' /\ Once'
    BY <2>1, <2>3 DEF Packed, Once
  <2>5. Fresh'
    BY <1>2, <2>1, <2>2, <2>3 DEF Fresh
  <2> QED
    BY <1>2, <2>1, <2>4, <2>5 DEF Typed
<1>4. CASE ArpSlot(ip) # {}
  <2>1. /\ k \in Slots
        /\ ~Filled(k) \/ arp_cache[k].ip = ip
        /\ \A i \in Slots : i < k => Filled(i)
        /\ \A i \in Slots : Filled(i) /\ arp_cache[i].ip = ip => i = k
    BY <1>4, FirstSlot
  <2>2. arp_cache' = [arp_cache EXCEPT ![k] = e]
    BY <1>4 DEF ArpSave
  <2> HIDE DEF k, e
  <2>3. arp_cache' \in [Slots -> CacheEntries \cup {NULL}]
    BY <1>1, <2>1, <2>2 DEF Typed
  <2>4. \A i \in Slots : arp_cache'[i] = IF i = k THEN e ELSE arp_cache[i]
    BY <2>1, <2>2 DEF Typed
  <2>5. \A i \in Slots : Filled(i)' <=> (i = k \/ Filled(i))
    BY <1>1, <2>4 DEF Filled
  <2>6. Packed'
    <3> SUFFICES ASSUME NEW i \in Slots, NEW j \in Slots, i < j, Filled(j)'
                 PROVE  Filled(i)'
      BY DEF Packed
    <3> QED
      BY <2>1, <2>5 DEF Packed
  <2>7. Once'
    <3> SUFFICES ASSUME NEW i \in Slots, NEW j \in Slots, Filled(i)', Filled(j)',
                        arp_cache'[i].ip = arp_cache'[j].ip
                 PROVE  i = j
      BY DEF Once
    <3> QED
      BY <1>1, <2>1, <2>4, <2>5 DEF Once
  <2>8. Fresh'
    <3> SUFFICES ASSUME NEW h \in Hosts
                 PROVE  /\ \A i \in Slots : Filled(i)' /\ arp_cache'[i].ip = h
                                              => arp_cache'[i].mac = heard'[h]
                        /\ \/ \E i \in Slots : Filled(i)' /\ arp_cache'[i].ip = h
                           \/ heard'[h] = NULL
                           \/ \A i \in Slots : Filled(i)'
      BY DEF Fresh
    <3>1. CASE h = ip
      BY <1>1, <1>2, <2>1, <2>4, <2>5, <3>1
    <3>2. CASE h # ip
      <4>1. \A i \in Slots : Filled(i)' /\ arp_cache'[i].ip = h => i # k /\ Filled(i)
        BY <1>1, <2>4, <2>5, <3>2
      <4>2. \A i \in Slots : Filled(i) /\ arp_cache[i].ip = h => i # k
        BY <2>1, <3>2
      <4> QED
        BY <1>2, <2>4, <2>5, <3>2, <4>1, <4>2 DEF Fresh
    <3> QED
      BY <3>1, <3>2
  <2> QED
    BY <1>2, <2>3, <2>6, <2>7, <2>8
<1> QED
  BY <1>3, <1>4
-----------------------------------------------------------------------------
(* What justified a frame goes on to justify it.                           *)
LEMMA StaysOK ==
  ASSUME NEW f, FrameOK(f), pinged \subseteq pinged',
         \A h \in Hosts : asked[h] \subseteq asked'[h]
  PROVE  FrameOK(f)'
  BY DEF FrameOK

(* A step that sends only frames that are justified keeps Justified.       *)
LEMMA EmitKeeps ==
  ASSUME Justified, NEW sent, NEW under, under \subseteq wire, NEW lost,
         Emit(sent, under, lost), \A f \in sent : FrameOK(f)',
         pinged \subseteq pinged', \A h \in Hosts : asked[h] \subseteq asked'[h],
         shown' \subseteq pinged'
  PROVE  Justified'
<1>1. \A f \in wire : FrameOK(f)'
  BY StaysOK DEF Justified
<1>2. wire' \subseteq under \cup sent
  BY DEF Emit
<1> QED
  BY <1>1, <1>2 DEF Justified

LEMMA LeftIn == ASSUME NEW f, NEW again PROVE Left(f, again) \subseteq wire
  BY DEF Left

(* The frames that ipv4_send_packet sends for us.                          *)
LEMMA SendOK ==
  ASSUME NEW ip \in Hosts, NEW op, NEW data, NEW alloc, NEW f \in ipv4_send(ip, op, data, alloc),
         op = "echo" => ip \in pinged',
         op = "echoreply" => data \in asked'[ip]
  PROVE  FrameOK(f)'
<1>1. CASE f \in arp_send_request(ip)
  BY <1>1 DEF arp_send_request, Arp, FrameOK
<1>2. CASE f = Echo(arp_lookup(ip), op, SojebIp, ip, data)
  BY <1>2 DEF Echo, FrameOK
<1> QED
  BY <1>1, <1>2 DEF ipv4_send

(* A step that leaves the kernel's cache alone.                            *)
LEMMA CacheStays ==
  ASSUME Typed, Packed, Once, Fresh, UNCHANGED <<arp_cache, heard>>
  PROVE  Packed' /\ Once' /\ Fresh'
<1>1. \A i \in Slots : Filled(i)' <=> Filled(i)
  BY DEF Filled
<1> QED
  BY <1>1 DEF Packed, Once, Fresh
-----------------------------------------------------------------------------
LEMMA InitIInv == Init => IInv
<1> SUFFICES ASSUME Init PROVE IInv
  OBVIOUS
<1>1. Typed
  BY DEF Init, Typed
<1>2. \A i \in Slots : ~Filled(i)
  BY DEF Init, Filled
<1>3. Packed /\ Once /\ Fresh
  BY <1>2 DEF Init, Packed, Once, Fresh
<1>4. Justified
  BY DEF Init, Justified
<1> QED
  BY <1>1, <1>3, <1>4 DEF IInv

(* A frame that arrives comes from another host.                           *)
LEMMA ArrivingOK ==
  ASSUME IInv, NEW f \in Arriving
  PROVE  f \in wire /\ FrameOK(f) /\ f.sip \in Hosts /\ f.sip # SojebIp
  BY DEF Arriving, IInv, Justified, FrameOK

LEMMA HandleArpKeeps ==
  ASSUME IInv, NEW f \in Arriving, NEW again, NEW lost, HandleArp(f, again, lost)
  PROVE  IInv'
<1> USE DEF IInv, HandleArp, hosts
<1>1. f.sip \in Hosts /\ f.smac \in Macs /\ f.sip # SojebIp
  BY ArrivingOK DEF FrameOK
<1>2. /\ arp_cache' \in [Slots -> CacheEntries \cup {NULL}]
      /\ heard' \in [Hosts -> Macs \cup {NULL}]
      /\ Packed' /\ Once' /\ Fresh'
  BY <1>1, ArpSaveKeeps
<1>3. Typed'
  BY <1>2 DEF Typed
<1>4. \A g \in ArpReply(f) : FrameOK(g)'
  BY DEF ArpReply, Arp, FrameOK
<1>5. Justified'
  BY <1>4, LeftIn, EmitKeeps DEF Justified
<1> QED
  BY <1>2, <1>3, <1>5

LEMMA HandleEchoKeeps ==
  ASSUME IInv, NEW f \in Arriving, NEW again, NEW lost, NEW alloc, HandleEcho(f, again, lost, alloc)
  PROVE  IInv'
<1> USE DEF IInv, HandleEcho, kernel, hosts
<1>1. f.sip \in Hosts /\ f.data \in asked[f.sip]
  BY ArrivingOK DEF FrameOK, AcceptsIpv4
<1>2. \A g \in IcmpReply(f, alloc) : FrameOK(g)'
  BY <1>1, SendOK DEF IcmpReply
<1>3. Justified'
  BY <1>2, LeftIn, EmitKeeps DEF Justified
<1>4. Typed' /\ Packed' /\ Once' /\ Fresh'
  BY CacheStays DEF Typed
<1> QED
  BY <1>3, <1>4

LEMMA HandleEchoReplyKeeps ==
  ASSUME IInv, NEW f \in Arriving, NEW again, HandleEchoReply(f, again)
  PROVE  IInv'
<1> USE DEF IInv, HandleEchoReply, hosts
<1>1. f.sip \in pinged
  BY ArrivingOK DEF FrameOK, AcceptsIpv4
<1>2. \A g \in wire : FrameOK(g)'
  BY StaysOK DEF Justified
<1>3. Justified'
  BY <1>1, <1>2, LeftIn DEF Justified
<1>4. Typed' /\ Packed' /\ Once' /\ Fresh'
  BY CacheStays DEF Typed
<1> QED
  BY <1>3, <1>4

(* Ignore and Lose: a frame is gone, and nothing else happens.             *)
LEMMA GoneKeeps ==
  ASSUME IInv, wire' \subseteq wire, UNCHANGED <<kernel, hosts>>
  PROVE  IInv'
<1> USE DEF IInv, kernel, hosts
<1>1. \A g \in wire : FrameOK(g)'
  BY StaysOK DEF Justified
<1>2. Justified'
  BY <1>1 DEF Justified
<1>3. Typed' /\ Packed' /\ Once' /\ Fresh'
  BY CacheStays DEF Typed
<1> QED
  BY <1>2, <1>3

LEMMA PingKeeps ==
  ASSUME IInv, NEW ip \in Hosts, NEW lost, NEW alloc, command_ping(ip, lost, alloc)
  PROVE  IInv'
<1> USE DEF IInv, command_ping, hosts
<1>1. \A g \in ipv4_send(ip, "echo", PingData, alloc) : FrameOK(g)'
  BY SendOK
<1>2. Justified'
  BY <1>1, EmitKeeps DEF Justified
<1>3. Typed' /\ Packed' /\ Once' /\ Fresh'
  BY CacheStays DEF Typed
<1> QED
  BY <1>2, <1>3

(* A host sends one frame or none, and perhaps learns our card.            *)
LEMMA HostSendKeeps ==
  ASSUME IInv, NEW sent, NEW under, under \subseteq wire, NEW lost, Emit(sent, under, lost),
         \A f \in sent : FrameOK(f)', UNCHANGED <<kernel, card, asked>>
  PROVE  IInv'
<1> USE DEF IInv, kernel
<1>1. Justified'
  BY EmitKeeps DEF Justified
<1>2. Typed' /\ Packed' /\ Once' /\ Fresh'
  BY CacheStays DEF Typed
<1> QED
  BY <1>1, <1>2

LEMMA HostAsksArpKeeps ==
  ASSUME IInv, NEW h \in Hosts, NEW lost, HostAsksArp(h, lost)
  PROVE  IInv'
<1>1. FrameOK(Arp(Broadcast, "request", h, card[h], SojebIp))'
  BY DEF HostAsksArp, Arp, FrameOK, IInv, Typed, hosts
<1> QED
  BY <1>1, HostSendKeeps DEF HostAsksArp, hosts

LEMMA HostHandlesArpKeeps ==
  ASSUME IInv, NEW h \in Hosts, NEW f \in wire, NEW again, NEW lost,
         HostHandlesArp(f, h, again, lost)
  PROVE  IInv'
<1> DEFINE sent == IF f.op = "request" /\ f.tip = h
                   THEN {Arp(SojebMac, "reply", h, card[h], SojebIp)} ELSE {}
<1>1. \A g \in sent : FrameOK(g)'
  BY DEF HostHandlesArp, Arp, FrameOK, IInv, Typed
<1>2. Emit(sent, Left(f, again), lost) /\ UNCHANGED <<kernel, card, asked>>
  BY DEF HostHandlesArp
<1> HIDE DEF sent
<1> QED
  BY <1>1, <1>2, LeftIn, HostSendKeeps

LEMMA HostHandlesEchoKeeps ==
  ASSUME IInv, NEW h \in Hosts, NEW f \in wire, NEW again, NEW lost,
         HostHandlesEcho(f, h, again, lost)
  PROVE  IInv'
<1> DEFINE sent == IF f.op = "echo" /\ f.tip = h
                   THEN {Echo(SojebMac, "echoreply", h, SojebIp, f.data)} ELSE {}
<1>1. FrameOK(f) /\ f.type = "ipv4" /\ f.sip = SojebIp /\ pinged' = pinged
  BY DEF HostHandlesEcho, IInv, Justified, kernel
<1>2. ASSUME NEW g \in sent PROVE FrameOK(g)'
  <2>1. h \in pinged
    BY <1>1, <1>2 DEF FrameOK
  <2> QED
    BY <1>1, <1>2, <2>1, NetStackAssumption DEF Echo, FrameOK
<1>3. Emit(sent, Left(f, again), lost) /\ UNCHANGED <<kernel, card, asked>>
  BY DEF HostHandlesEcho, hosts
<1> HIDE DEF sent
<1> QED
  BY <1>2, <1>3, LeftIn, HostSendKeeps

LEMMA HostPingsKeeps ==
  ASSUME IInv, NEW h \in Hosts, NEW d \in Data, NEW lost, HostPings(h, d, lost)
  PROVE  IInv'
<1> USE DEF IInv, HostPings, kernel
<1>1. /\ asked' \in [Hosts -> SUBSET Data] /\ d \in asked'[h]
      /\ \A g \in Hosts : asked[g] \subseteq asked'[g]
  BY DEF Typed
<1>2. FrameOK(Echo(SojebMac, "echo", h, SojebIp, d))'
  BY <1>1, NetStackAssumption DEF Echo, FrameOK
<1>3. Justified'
  BY <1>1, <1>2, EmitKeeps DEF Justified
<1>4. Typed' /\ Packed' /\ Once' /\ Fresh'
  BY <1>1, CacheStays DEF Typed
<1> QED
  BY <1>3, <1>4

LEMMA HostMovesKeeps ==
  ASSUME IInv, NEW h \in Hosts, NEW m \in Macs, HostMoves(h, m)
  PROVE  IInv'
<1> USE DEF IInv, HostMoves, kernel
<1>1. Justified'
  BY StaysOK DEF Justified
<1>2. Typed' /\ Packed' /\ Once' /\ Fresh'
  BY CacheStays DEF Typed
<1> QED
  BY <1>1, <1>2

LEMMA HostStraysKeeps ==
  ASSUME IInv, NEW h \in Hosts, NEW lost, HostStrays(h, lost)
  PROVE  IInv'
<1>1. PICK f \in Stray(h) : Emit({f}, wire, lost)
  BY DEF HostStrays
<1>2. card[h] \in Macs /\ h # SojebIp /\ h # Broadcast
  BY NetStackAssumption DEF IInv, Typed
<1>3. FrameOK(f)'
  BY <1>2 DEF Stray, Arp, Echo, FrameOK
<1> QED
  BY <1>1, <1>3, HostSendKeeps DEF HostStrays, hosts
-----------------------------------------------------------------------------
(* Every step of the kernel, of the hosts and of the network keeps IInv.   *)
LEMMA NextKeeps == IInv /\ [Next]_vars => IInv'
<1> SUFFICES ASSUME IInv, [Next]_vars PROVE IInv'
  OBVIOUS
<1>1. CASE Kernel
  <2>1. PICK again \in BOOLEAN, lost \in BOOLEAN, alloc \in Allocs :
          \/ \E f \in Arriving : \/ HandleArp(f, again, lost)
                                 \/ HandleEcho(f, again, lost, alloc)
                                 \/ HandleEchoReply(f, again)
                                 \/ Ignore(f)
          \/ \E ip \in Hosts : command_ping(ip, lost, alloc)
    BY <1>1 DEF Kernel
  <2>2. ASSUME NEW f \in Arriving, Ignore(f) PROVE IInv'
    BY <2>2, GoneKeeps DEF Ignore
  <2> QED
    BY <2>1, <2>2, HandleArpKeeps, HandleEchoKeeps, HandleEchoReplyKeeps, PingKeeps
<1>2. CASE Others
  <2>1. PICK h \in Hosts, again \in BOOLEAN, lost \in BOOLEAN :
          \/ HostAsksArp(h, lost)
          \/ \E f \in wire : HostHandlesArp(f, h, again, lost) \/ HostHandlesEcho(f, h, again, lost)
          \/ \E d \in Data : HostPings(h, d, lost)
          \/ \E m \in Macs : HostMoves(h, m)
          \/ HostStrays(h, lost)
    BY <1>2 DEF Others
  <2> QED
    BY <2>1, HostAsksArpKeeps, HostHandlesArpKeeps, HostHandlesEchoKeeps, HostPingsKeeps,
       HostMovesKeeps, HostStraysKeeps
<1>3. CASE \E f \in wire : Lose(f)
  BY <1>3, GoneKeeps DEF Lose
<1>4. CASE UNCHANGED vars
  BY <1>4, GoneKeeps DEF vars
<1> QED
  BY <1>1, <1>2, <1>3, <1>4 DEF Next

LEMMA IInvAlways == Spec => []IInv
  BY InitIInv, NextKeeps, PTL DEF Spec

(* arp_handle_packet keeps, for every host it knows, one entry, with the   *)
(* card of the last ARP packet, and leaves a host out only when the cache  *)
(* is full: for every size of the cache, whatever arrives in whatever      *)
(* order and however often.                                                *)
THEOREM CacheRight == Spec => []CacheIsLastHeard
<1>1. IInv => CacheIsLastHeard
  <2> SUFFICES ASSUME IInv, NEW h \in Hosts
               PROVE  /\ Cardinality({i \in Slots : arp_cache[i] # NULL /\ arp_cache[i].ip = h}) <= 1
                      /\ \/ arp_lookup(h) = heard[h]
                         \/ arp_lookup(h) = NULL /\ \A i \in Slots : arp_cache[i] # NULL
    BY DEF CacheIsLastHeard
  <2> DEFINE at == {i \in Slots : arp_cache[i] # NULL /\ arp_cache[i].ip = h}
  <2>1. Cardinality(at) <= 1
    <3>1. \A i, j \in at : i = j
      BY DEF IInv, Once, Filled
    <3> HIDE DEF at
    <3>2. at = {} \/ \E i \in at : at = {i}
      BY <3>1, Zenon
    <3>3. Cardinality(at) = 0 \/ Cardinality(at) = 1
      BY <3>2, FS_EmptySet, FS_Singleton
    <3> QED
      BY <3>3
  <2>2. \/ arp_lookup(h) = heard[h]
        \/ arp_lookup(h) = NULL /\ \A i \in Slots : arp_cache[i] # NULL
    BY LookupFinds DEF IInv, Fresh, Filled
  <2> QED
    BY <2>1, <2>2
<1> QED
  BY <1>1, IInvAlways, PTL

(* An echo reply of ours goes to a host that asked and carries what it     *)
(* sent; "Received reply from" is printed only for addresses that were     *)
(* pinged.                                                                 *)
THEOREM AnswersRight == Spec => []AnswersMatchRequests
<1>1. IInv => AnswersMatchRequests
  BY DEF IInv, Justified, FrameOK, AnswersMatchRequests
<1> QED
  BY <1>1, IInvAlways, PTL
-----------------------------------------------------------------------------
(* The Internet checksum.                                                  *)

(* The remainder modulo Word - 1, with Word - 1 for 0 except of 0 itself.  *)
Residue(n) == IF n = 0 THEN 0 ELSE 1 + ((n - 1) % (Word - 1))

LEMMA WordFacts == /\ Byte \in Nat \ {0, 1} /\ Word \in Nat /\ Word - 1 \in Nat \ {0}
                   /\ Word = Byte * Byte /\ Word >= 4 /\ Byte <= Word
<1>1. Byte \in Nat /\ Byte >= 2
  BY ChecksumAssumption
<1>2. Byte * 2 <= Byte * Byte /\ Byte * Byte \in Nat
  BY <1>1, MulMono
<1> QED
  BY <1>1, <1>2 DEF Word

(* Multiples of the divisor leave the remainder alone.                     *)
LEMMA ModShift ==
  ASSUME NEW m \in Nat \ {0}, NEW q \in Nat, NEW x \in Nat
  PROVE  (m * q + x) % m = x % m
<1> DEFINE k == x \div m  r == x % m  n == m * q + x
<1>1. k \in Nat /\ r \in Nat /\ x = m * k + r /\ r < m
  BY DivMod
<1> HIDE DEF k, r
<1>2. m * (q + k) = m * q + m * k /\ q + k \in Nat /\ m * q \in Nat /\ m * k \in Nat
  BY <1>1
<1>3. n \in Nat /\ n = m * (q + k) + r
  <2> DEFINE a == m * q  b == m * k
  <2>1. a \in Nat /\ b \in Nat /\ m * (q + k) = a + b /\ x = b + r /\ n = a + x
    BY <1>1, <1>2
  <2> HIDE DEF a, b, n
  <2> QED
    BY <2>1, <1>1
<1> HIDE DEF n
<1>4. n % m = r
  BY <1>1, <1>2, <1>3, DivUnique
<1> QED
  BY <1>4 DEF n, r

LEMMA ResidueFacts ==
  ASSUME NEW n \in Nat
  PROVE  /\ Residue(n) \in 0 .. Word - 1
         /\ \E k \in Nat : n = (Word - 1) * k + Residue(n)
         /\ n < Word => Residue(n) = n
<1> DEFINE M == Word - 1
<1>1. M \in Nat \ {0} /\ Word = M + 1
  BY WordFacts
<1> HIDE DEF M
<1>2. CASE n = 0
  <2>1. Residue(n) = 0 /\ M * 0 + 0 = 0
    BY <1>1, <1>2 DEF Residue
  <2> QED
    BY <2>1, <1>1, <1>2 DEF M
<1>3. CASE n # 0
  <2> DEFINE k == (n - 1) \div M  r == (n - 1) % M
  <2>1. k \in Nat /\ r \in Nat /\ n - 1 = M * k + r /\ r < M
    BY <1>1, <1>3, DivMod
  <2>2. Residue(n) = 1 + r
    BY <1>3 DEF Residue, M
  <2>3. n < Word => r = n - 1
    <3> SUFFICES ASSUME n < Word PROVE r = n - 1
      OBVIOUS
    <3>1. n - 1 \in Nat /\ n - 1 < M /\ n - 1 = M * 0 + (n - 1)
      BY <1>1, <1>3
    <3> QED
      BY <3>1, <1>1, DivUnique
  <2> HIDE DEF k, r
  <2>4. n = M * k + Residue(n)
    <3> DEFINE a == M * k
    <3>1. a \in Nat /\ n - 1 = a + r
      BY <1>1, <2>1
    <3> HIDE DEF a
    <3>2. n = a + (1 + r)
      BY <3>1, <2>1, <1>3
    <3> QED
      BY <3>2, <2>2 DEF a
  <2>5. Residue(n) \in 0 .. M /\ (n < Word => Residue(n) = n)
    BY <2>1, <2>2, <2>3, <1>1, <1>3
  <2> QED
    BY <2>1, <2>4, <2>5 DEF M
<1> QED
  BY <1>2, <1>3

(* Adding the carries back in keeps the residue.                           *)
LEMMA ResidueStep ==
  ASSUME NEW n \in Nat, n >= Word
  PROVE  LET m == (n % Word) + n \div Word
         IN m \in 0 .. n - 1 /\ Residue(m) = Residue(n)
<1> DEFINE M == Word - 1  q == n \div Word  r == n % Word  m == r + q
<1>1. Word \in Nat \ {0} /\ M \in Nat \ {0} /\ Word = M + 1
  BY WordFacts
<1>2. q \in Nat /\ r \in Nat /\ n = Word * q + r /\ r < Word
  BY <1>1, DivMod
<1>3. Word * q = M * q + q /\ M * q \in Nat
  <2> HIDE DEF q, M
  <2> QED
    BY <1>1, <1>2
<1>4. q # 0
  <2> SUFFICES ASSUME q = 0 PROVE FALSE
    OBVIOUS
  <2>1. Word * q = 0
    BY <1>1
  <2> HIDE DEF q, r
  <2> QED
    BY <2>1, <1>1, <1>2
<1>5. M * q >= 1
  <2> HIDE DEF M, q
  <2>1. M * 1 <= M * q /\ M * 1 = M
    BY <1>1, <1>2, <1>4, MulMono
  <2> QED
    BY <2>1, <1>1, <1>3
<1>6. m \in Nat /\ m # 0 /\ n = M * q + m /\ n - 1 = M * q + (m - 1)
  <2> DEFINE a == M * q
  <2>1. a \in Nat /\ Word * q = a + q
    BY <1>3
  <2> HIDE DEF a, q, r
  <2>2. n = (a + q) + r
    BY <2>1, <1>2
  <2>3. m \in Nat /\ m # 0 /\ n = a + m /\ n - 1 = a + (m - 1)
    BY <2>1, <2>2, <1>2, <1>4
  <2> QED
    BY <2>3 DEF a
<1> HIDE DEF M, q, r, m
<1>7. m \in 0 .. n - 1
  <2> DEFINE a == M * q
  <2>1. a \in Nat /\ a >= 1 /\ n = a + m
    BY <1>3, <1>5, <1>6
  <2> HIDE DEF a
  <2> QED
    BY <2>1, <1>6
<1>8. (n - 1) % M = (m - 1) % M
  <2>1. m - 1 \in Nat
    BY <1>6
  <2>2. (M * q + (m - 1)) % M = (m - 1) % M
    BY <2>1, <1>1, <1>2, ModShift
  <2>3. n - 1 = M * q + (m - 1)
    BY <1>6
  <2> QED
    BY <2>2, <2>3, Zenon
<1>9. Residue(m) = Residue(n)
  BY <1>6, <1>7, <1>8 DEF Residue, M
<1> QED
  BY <1>7, <1>9 DEF m, q, r

(* A positive multiple of Word - 1.                                        *)
LEMMA ResidueFull ==
  ASSUME NEW n \in Nat \ {0}, NEW k \in Nat, n = (Word - 1) * k
  PROVE  Residue(n) = Word - 1
<1> DEFINE M == Word - 1
<1>1. M \in Nat \ {0}
  BY WordFacts
<1>2. k # 0
  <2>1. M * 0 = 0
    BY <1>1
  <2> QED
    BY <2>1
<1> HIDE DEF M
<1>3. n = M * k
  BY DEF M
<1>4. k - 1 \in Nat /\ M * k = M * (k - 1) + M /\ M * (k - 1) \in Nat
  BY <1>1, <1>2
<1>5. n - 1 = M * (k - 1) + (M - 1) /\ n - 1 \in Nat /\ M - 1 \in Nat /\ M - 1 < M
  <2> DEFINE a == M * (k - 1)
  <2>1. n = a + M /\ a \in Nat
    BY <1>3, <1>4
  <2> HIDE DEF a
  <2>2. n - 1 = a + (M - 1) /\ n - 1 \in Nat /\ M - 1 \in Nat /\ M - 1 < M
    BY <2>1, <1>1
  <2> QED
    BY <2>2 DEF a
<1>6. (n - 1) % M = M - 1
  BY <1>1, <1>4, <1>5, DivUnique
<1> QED
  BY <1>1, <1>6 DEF Residue, M

(* Fold computes the residue.                                              *)
LEMMA FoldIs ==
  ASSUME NEW s \in Nat
  PROVE  Fold(s) = Residue(s)
<1> DEFINE Next1(n) == (n % Word) + n \div Word
<1> DEFINE Eq(f) == f = [n \in 0 .. s |-> IF n < Word THEN n ELSE f[Next1(n)]]
<1> DEFINE g == [n \in 0 .. s |-> Residue(n)]
<1>1. \A n \in 0 .. s :
        /\ n < Word => Residue(n) = n
        /\ ~(n < Word) => Next1(n) \in 0 .. n - 1 /\ Residue(n) = Residue(Next1(n))
  <2> SUFFICES ASSUME NEW n \in 0 .. s
               PROVE  /\ n < Word => Residue(n) = n
                      /\ ~(n < Word) => Next1(n) \in 0 .. n - 1 /\ Residue(n) = Residue(Next1(n))
    OBVIOUS
  <2>1. n \in Nat /\ Word \in Nat
    BY WordFacts
  <2>2. ~(n < Word) => n >= Word
    BY <2>1
  <2> QED
    BY <2>1, <2>2, ResidueFacts, ResidueStep
<1> HIDE DEF Next1
<1>2. Eq(g)
  <2>1. ASSUME NEW n \in 0 .. s PROVE Residue(n) = IF n < Word THEN n ELSE g[Next1(n)]
    <3>1. CASE n < Word
      BY <3>1, <1>1
    <3>2. CASE ~(n < Word)
      <4>1. Next1(n) \in 0 .. s /\ Residue(n) = Residue(Next1(n))
        BY <3>2, <1>1
      <4> QED
        BY <4>1, <3>2
    <3> QED
      BY <3>1, <3>2
  <2> QED
    BY <2>1
<1> DEFINE f == CHOOSE h : Eq(h)
<1>3. Eq(f)
  <2> HIDE DEF g
  <2> QED
    BY <1>2, Zenon
<1>4. Fold(s) = f[s]
  BY Zenon DEF Fold, Next1
<1> HIDE DEF f
<1>5. \A n \in 0 .. s : f[n] = IF n < Word THEN n ELSE f[Next1(n)]
  BY <1>3
<1> DEFINE Bad == {n \in 0 .. s : f[n] # Residue(n)}
<1>6. Bad = {}
  <2> SUFFICES ASSUME Bad # {} PROVE FALSE
    OBVIOUS
  <2>1. Bad \in SUBSET Nat
    OBVIOUS
  <2> DEFINE m == Min(Bad)
  <2>2. m \in Bad /\ \A y \in Bad : m <= y
    BY <2>1, MinNat
  <2> HIDE DEF m
  <2>3. m \in 0 .. s /\ f[m] # Residue(m)
    BY <2>2
  <2>4. ~(m < Word)
    BY <2>3, <1>1, <1>5
  <2>5. Next1(m) \in 0 .. m - 1 /\ Residue(m) = Residue(Next1(m)) /\ f[m] = f[Next1(m)]
    BY <2>3, <2>4, <1>1, <1>5
  <2>6. Next1(m) \in 0 .. s /\ ~(m <= Next1(m))
    BY <2>3, <2>5
  <2>7. f[Next1(m)] = Residue(Next1(m))
    BY <2>2, <2>6
  <2> QED
    BY <2>3, <2>5, <2>7
<1>7. f[s] = Residue(s)
  BY <1>6
<1> QED
  BY <1>4, <1>7

(* The recursion of the sum, unfolded.                                     *)
WordsIn(p, N) == \A i \in 1 .. N : WordAt(p, i) \in Nat

LEMMA SumUnfold ==
  ASSUME NEW p, NEW N \in Nat, WordsIn(p, N)
  PROVE  /\ SumWords(p, 0) = 0
         /\ \A n \in 1 .. N : SumWords(p, n) = SumWords(p, n - 1) + WordAt(p, n)
         /\ \A n \in 0 .. N : SumWords(p, n) \in Nat
<1> DEFINE step == [n \in 1 .. N |-> [x \in Nat |-> x + WordAt(p, n)]]
<1>1. \A n \in 1 .. N : WordAt(p, n) \in Nat
  BY DEF WordsIn
<1>2. step \in Steps(N, Nat)
  BY <1>1 DEF Steps
<1>3. PICK g \in [0 .. N -> Nat] : g[0] = 0 /\ \A n \in 1 .. N : g[n] = step[n][g[n - 1]]
  <2> HIDE DEF step
  <2>1. Solvable(N, Nat, 0, step)
    BY <1>2, RecursionExists
  <2> QED
    BY <2>1 DEF Solvable
<1>4. ASSUME NEW n \in 1 .. N PROVE g[n] = g[n - 1] + WordAt(p, n) /\ n - 1 \in 0 .. N
  <2>1. n - 1 \in 0 .. N /\ g[n - 1] \in Nat
    BY <1>3
  <2> QED
    BY <2>1, <1>3
<1>5. ASSUME NEW n \in 0 .. N PROVE SumWords(p, n) = g[n]
  <2> DEFINE Eq(f) == f = [i \in 0 .. n |-> IF i = 0 THEN 0 ELSE f[i - 1] + WordAt(p, i)]
  <2> DEFINE h == [i \in 0 .. n |-> g[i]]
  <2>1. Eq(h)
    <3>1. ASSUME NEW i \in 0 .. n PROVE g[i] = IF i = 0 THEN 0 ELSE h[i - 1] + WordAt(p, i)
      <4>1. CASE i = 0
        BY <4>1, <1>3
      <4>2. CASE i # 0
        <5>1. i \in 1 .. N /\ i - 1 \in 0 .. n
          BY <4>2
        <5>2. h[i - 1] = g[i - 1]
          BY <5>1
        <5>3. g[i] = g[i - 1] + WordAt(p, i)
          BY <5>1, <1>4
        <5> QED
          BY <5>2, <5>3, <4>2
      <4> QED
        BY <4>1, <4>2
    <3> QED
      BY <3>1
  <2> DEFINE f == CHOOSE x : Eq(x)
  <2>2. Eq(f)
    <3> HIDE DEF h
    <3> QED
      BY <2>1, Zenon
  <2>3. SumWords(p, n) = f[n]
    BY Zenon DEF SumWords
  <2> HIDE DEF f
  <2>4. \A i \in 0 .. n : f[i] = IF i = 0 THEN 0 ELSE f[i - 1] + WordAt(p, i)
    BY <2>2
  <2> DEFINE Bad == {i \in 0 .. n : f[i] # g[i]}
  <2>5. Bad = {}
    <3> SUFFICES ASSUME Bad # {} PROVE FALSE
      OBVIOUS
    <3>1. Bad \in SUBSET Nat
      OBVIOUS
    <3> DEFINE m == Min(Bad)
    <3>2. m \in Bad /\ \A y \in Bad : m <= y
      BY <3>1, MinNat
    <3> HIDE DEF m
    <3>3. m \in 0 .. n /\ f[m] # g[m]
      BY <3>2
    <3>4. m # 0
      BY <3>3, <2>4, <1>3
    <3>5. m \in 1 .. N /\ m - 1 \in 0 .. n /\ ~(m <= m - 1)
      BY <3>3, <3>4
    <3>6. f[m - 1] = g[m - 1]
      BY <3>2, <3>5
    <3>7. g[m] = g[m - 1] + WordAt(p, m)
      BY <3>5, <1>4
    <3>8. f[m] = f[m - 1] + WordAt(p, m)
      BY <3>3, <3>4, <2>4
    <3> QED
      BY <3>3, <3>6, <3>7, <3>8
  <2>6. n \in 0 .. n
    OBVIOUS
  <2> QED
    BY <2>3, <2>5, <2>6
<1>6. 0 \in 0 .. N /\ \A n \in 1 .. N : n \in 0 .. N
  OBVIOUS
<1> HIDE DEF step
<1> QED
  BY <1>3, <1>4, <1>5, <1>6

(* The sums of two packets whose second words differ by c, and no others.  *)
LEMMA SumShift ==
  ASSUME NEW p, NEW q, NEW N \in Nat, WordsIn(p, N), WordsIn(q, N), NEW c \in Nat,
         \A i \in 1 .. N : WordAt(q, i) = WordAt(p, i) + (IF i = 2 THEN c ELSE 0)
  PROVE  \A n \in 0 .. N : SumWords(q, n) = SumWords(p, n) + (IF n >= 2 THEN c ELSE 0)
<1> DEFINE Same(n) == SumWords(q, n) = SumWords(p, n) + (IF n >= 2 THEN c ELSE 0)
<1> DEFINE Bad == {n \in 0 .. N : ~Same(n)}
<1>0. SUFFICES ASSUME Bad # {} PROVE FALSE
  OBVIOUS
<1>1. Bad \in SUBSET Nat
  OBVIOUS
<1> DEFINE m == Min(Bad)
<1>2. m \in Bad /\ \A y \in Bad : m <= y
  BY <1>0, <1>1, MinNat
<1> HIDE DEF m
<1>3. m \in 0 .. N /\ ~Same(m)
  BY <1>2
<1>4. /\ SumWords(p, 0) = 0
      /\ \A n \in 1 .. N : SumWords(p, n) = SumWords(p, n - 1) + WordAt(p, n)
      /\ \A n \in 0 .. N : SumWords(p, n) \in Nat
  BY SumUnfold
<1>5. /\ SumWords(q, 0) = 0
      /\ \A n \in 1 .. N : SumWords(q, n) = SumWords(q, n - 1) + WordAt(q, n)
      /\ \A n \in 0 .. N : SumWords(q, n) \in Nat
  BY SumUnfold
<1>6. m # 0
  BY <1>3, <1>4, <1>5
<1>7. m \in 1 .. N /\ m - 1 \in 0 .. N /\ ~(m <= m - 1)
  BY <1>3, <1>6
<1>8. Same(m - 1)
  BY <1>2, <1>7
<1> DEFINE a == SumWords(p, m - 1)  b == SumWords(q, m - 1)  x == WordAt(p, m)  y == WordAt(q, m)
<1>9. /\ SumWords(p, m) = a + x /\ SumWords(q, m) = b + y /\ a \in Nat /\ b \in Nat /\ x \in Nat
      /\ y = x + (IF m = 2 THEN c ELSE 0) /\ b = a + (IF m - 1 >= 2 THEN c ELSE 0)
  BY <1>4, <1>5, <1>7, <1>8 DEF WordsIn
<1> HIDE DEF a, b, x, y
<1>10. b + y = (a + x) + (IF m >= 2 THEN c ELSE 0)
  BY <1>7, <1>9
<1> QED
  BY <1>3, <1>9, <1>10

Bytes == 0 .. Byte - 1

LEMMA PacketWords ==
  ASSUME NEW p \in Seq(Bytes)
  PROVE  /\ Len(p) \in Nat /\ WordCount(p) \in Nat /\ Len(p) % 2 \in {0, 1}
         /\ Len(p) = 2 * WordCount(p) + (Len(p) % 2)
         /\ \A i \in 1 .. Len(p) : p[i] \in Nat
         /\ \A i \in 1 .. WordCount(p) : 2 * i - 1 \in 1 .. Len(p) /\ 2 * i \in 1 .. Len(p)
         /\ WordsIn(p, WordCount(p))
<1> DEFINE L == Len(p)  W == WordCount(p)
<1>0. L \in Nat /\ Bytes \subseteq Nat
  BY WordFacts DEF Bytes
<1>1. L \in Nat /\ \A i \in 1 .. L : p[i] \in Nat
  <2>1. \A i \in 1 .. L : p[i] \in Bytes
    OBVIOUS
  <2> QED
    BY <2>1, <1>0
<1>2. W \in Nat /\ L = 2 * W + (L % 2) /\ L % 2 \in {0, 1}
  BY <1>1, DivMod DEF WordCount
<1> HIDE DEF L, W
<1>3. \A i \in 1 .. W : 2 * i - 1 \in 1 .. L /\ 2 * i \in 1 .. L
  BY <1>1, <1>2
<1>4. \A i \in 1 .. W : WordAt(p, i) \in Nat
  <2> SUFFICES ASSUME NEW i \in 1 .. W PROVE WordAt(p, i) \in Nat
    OBVIOUS
  <2>1. p[2 * i - 1] \in Nat /\ p[2 * i] \in Nat /\ Byte \in Nat
    BY <1>1, <1>3, ChecksumAssumption
  <2>2. Byte * p[2 * i] \in Nat
    BY <2>1
  <2> QED
    BY <2>1, <2>2 DEF WordAt
<1> QED
  BY <1>1, <1>2, <1>3, <1>4 DEF WordsIn, L, W

LEMMA SumOfNat ==
  ASSUME NEW p \in Seq(Bytes)
  PROVE  SumOf(p) \in Nat
<1>1. SumWords(p, WordCount(p)) \in Nat
  <2>1. WordCount(p) \in Nat /\ WordsIn(p, WordCount(p)) /\ WordCount(p) \in 0 .. WordCount(p)
    BY PacketWords
  <2> QED
    BY <2>1, SumUnfold
<1>2. Len(p) % 2 = 1 => p[Len(p)] \in Nat
  <2>1. Len(p) % 2 = 1 => Len(p) \in 1 .. Len(p)
    BY PacketWords
  <2> QED
    BY <2>1, PacketWords
<1> QED
  BY <1>1, <1>2 DEF SumOf

(* A last odd byte counts as the word that a zero byte completes.          *)
LEMMA PaddedSum ==
  ASSUME NEW p \in Seq(Bytes), Len(p) % 2 = 1
  PROVE  SumWords(Append(p, 0), WordCount(Append(p, 0))) = SumOf(p)
<1> DEFINE a == Append(p, 0)  W == WordCount(p)
<1>1. /\ Len(p) \in Nat /\ W \in Nat /\ Len(p) = 2 * W + 1 /\ WordsIn(p, W)
      /\ \A i \in 1 .. Len(p) : p[i] \in Nat
      /\ \A i \in 1 .. W : 2 * i - 1 \in 1 .. Len(p) /\ 2 * i \in 1 .. Len(p)
  BY PacketWords
<1>2. a \in Seq(Bytes) /\ Len(a) = Len(p) + 1 /\ a[Len(p) + 1] = 0 /\ \A i \in 1 .. Len(p) : a[i] = p[i]
  <2>1. 0 \in Bytes
    BY ChecksumAssumption DEF Bytes
  <2> QED
    BY <2>1, <1>1
<1> HIDE DEF a, W
<1>3. Len(a) = 2 * (W + 1) + 0 /\ Len(a) \in Nat
  BY <1>1, <1>2
<1>4. WordCount(a) = W + 1
  BY <1>1, <1>3, DivUnique DEF WordCount
<1>5. WordsIn(a, W + 1) /\ W + 1 \in Nat /\ W + 1 \in 1 .. W + 1 /\ (W + 1) - 1 = W
  BY <1>1, <1>2, <1>4, PacketWords
<1>6. SumWords(a, W + 1) = SumWords(a, W) + WordAt(a, W + 1)
  BY <1>5, SumUnfold
<1>7. SumWords(a, W) = SumWords(p, W)
  <2>1. WordsIn(a, W)
    BY <1>1, <1>5 DEF WordsIn
  <2>2. ASSUME NEW i \in 1 .. W PROVE WordAt(a, i) = WordAt(p, i) + (IF i = 2 THEN 0 ELSE 0)
    <3>1. a[2 * i - 1] = p[2 * i - 1] /\ a[2 * i] = p[2 * i]
      BY <1>1, <1>2
    <3>2. WordAt(p, i) \in Nat
      BY <1>1 DEF WordsIn
    <3>3. WordAt(a, i) = WordAt(p, i)
      BY <3>1 DEF WordAt
    <3> QED
      BY <3>2, <3>3
  <2>3. \A n \in 0 .. W : SumWords(a, n) = SumWords(p, n) + (IF n >= 2 THEN 0 ELSE 0)
    BY <1>1, <2>1, <2>2, SumShift
  <2>4. SumWords(p, W) \in Nat /\ W \in 0 .. W
    BY <1>1, SumUnfold
  <2> QED
    BY <2>3, <2>4
<1>8. WordAt(a, W + 1) = p[Len(p)]
  <2>1. 2 * (W + 1) - 1 = Len(p) /\ 2 * (W + 1) = Len(p) + 1 /\ Len(p) \in 1 .. Len(p)
    BY <1>1
  <2>2. WordAt(a, W + 1) = a[Len(p)] + Byte * a[Len(p) + 1]
    BY <2>1 DEF WordAt
  <2>3. a[Len(p)] = p[Len(p)] /\ a[Len(p) + 1] = 0 /\ p[Len(p)] \in Nat
    BY <2>1, <1>1, <1>2
  <2>4. Byte * 0 = 0
    BY WordFacts
  <2> QED
    BY <2>2, <2>3, <2>4
<1>9. SumOf(p) = SumWords(p, W) + p[Len(p)]
  BY DEF SumOf, W
<1>10. SumWords(a, WordCount(a)) = SumOf(p)
  BY <1>4, <1>6, <1>7, <1>8, <1>9
<1> QED
  BY <1>10 DEF a

(* The sum of a packet, the checksum field of which is c.                  *)
WithSum(p, c) == [p EXCEPT ![3] = c % Byte, ![4] = c \div Byte]

LEMMA WithSumFacts ==
  ASSUME NEW p \in Seq(Bytes), Len(p) >= 4, NEW c \in 0 .. Word - 1
  PROVE  /\ WithSum(p, c) \in Seq(Bytes) /\ Len(WithSum(p, c)) = Len(p)
         /\ WordAt(WithSum(p, c), 2) = c
         /\ \A i \in 1 .. Len(p) : i \notin {3, 4} => WithSum(p, c)[i] = p[i]
<1> DEFINE x == c % Byte  y == c \div Byte  u == WithSum(p, c)
<1>1. c \in Nat /\ Byte \in Nat \ {0} /\ Word = Byte * Byte /\ Word \in Nat
  BY WordFacts
<1>2. x \in Nat /\ y \in Nat /\ c = Byte * y + x /\ x < Byte
  BY <1>1, DivMod
<1>3. y < Byte
  <2> SUFFICES ASSUME Byte <= y PROVE FALSE
    BY <1>1, <1>2
  <2> HIDE DEF x, y
  <2>1. Byte * Byte <= Byte * y /\ Byte * y \in Nat
    BY <1>1, <1>2, MulMono
  <2> DEFINE a == Byte * y
  <2>2. Word <= a /\ c = a + x /\ a \in Nat
    BY <2>1, <1>1, <1>2
  <2> HIDE DEF a
  <2> QED
    BY <2>2, <1>1, <1>2
<1>4. u = [p EXCEPT ![3] = x, ![4] = y]
  BY DEF WithSum
<1> HIDE DEF x, y, u
<1>5. x \in Bytes /\ y \in Bytes /\ 3 \in 1 .. Len(p) /\ 4 \in 1 .. Len(p)
  BY <1>1, <1>2, <1>3 DEF Bytes
<1>6. /\ u \in Seq(Bytes) /\ Len(u) = Len(p) /\ u[3] = x /\ u[4] = y
      /\ \A i \in 1 .. Len(p) : i \notin {3, 4} => u[i] = p[i]
  BY <1>4, <1>5
<1>7. WordAt(u, 2) = u[3] + Byte * u[4]
  <2>1. 2 * 2 - 1 = 3 /\ 2 * 2 = 4
    OBVIOUS
  <2> QED
    BY <2>1 DEF WordAt
<1>8. x + Byte * y = c
  <2> DEFINE a == Byte * y
  <2>1. a \in Nat /\ c = a + x
    BY <1>1, <1>2
  <2> HIDE DEF a
  <2>2. x + a = c
    BY <2>1, <1>2
  <2> QED
    BY <2>2 DEF a
<1> QED
  BY <1>6, <1>7, <1>8 DEF u

LEMMA SealedSum ==
  ASSUME NEW p \in Seq(Bytes), Len(p) >= 4, NEW c \in 0 .. Word - 1
  PROVE  SumOf(WithSum(p, c)) = SumOf(WithSum(p, 0)) + c
<1> DEFINE u == WithSum(p, c)  z == WithSum(p, 0)  L == Len(p)  W == WordCount(p)
<1>1. 0 \in 0 .. Word - 1 /\ c \in Nat
  BY WordFacts
<1>2. /\ u \in Seq(Bytes) /\ Len(u) = L /\ WordAt(u, 2) = c
      /\ \A i \in 1 .. L : i \notin {3, 4} => u[i] = p[i]
  BY WithSumFacts
<1>3. /\ z \in Seq(Bytes) /\ Len(z) = L /\ WordAt(z, 2) = 0
      /\ \A i \in 1 .. L : i \notin {3, 4} => z[i] = p[i]
  BY <1>1, WithSumFacts
<1>4. /\ L \in Nat /\ W \in Nat /\ L = 2 * W + (L % 2) /\ L % 2 \in {0, 1}
      /\ \A i \in 1 .. W : 2 * i - 1 \in 1 .. L /\ 2 * i \in 1 .. L
  BY PacketWords
<1>5. WordCount(u) = W /\ WordCount(z) = W
  BY <1>2, <1>3 DEF WordCount
<1> HIDE DEF u, z, L, W
<1>6. WordsIn(u, W) /\ WordsIn(z, W)
  BY <1>2, <1>3, <1>5, PacketWords
<1>7. ASSUME NEW i \in 1 .. W PROVE WordAt(u, i) = WordAt(z, i) + (IF i = 2 THEN c ELSE 0)
  <2>1. CASE i = 2
    BY <2>1, <1>1, <1>2, <1>3
  <2>2. CASE i # 2
    <3>1. 2 * i - 1 \notin {3, 4} /\ 2 * i \notin {3, 4}
      BY <2>2
    <3>2. u[2 * i - 1] = z[2 * i - 1] /\ u[2 * i] = z[2 * i]
      BY <3>1, <1>2, <1>3, <1>4
    <3>3. WordAt(u, i) = WordAt(z, i) /\ WordAt(z, i) \in Nat
      BY <3>2, <1>6 DEF WordAt, WordsIn
    <3> QED
      BY <3>3, <2>2
  <2> QED
    BY <2>1, <2>2
<1>8. SumWords(u, W) = SumWords(z, W) + c /\ SumWords(z, W) \in Nat
  <2>1. \A n \in 0 .. W : SumWords(u, n) = SumWords(z, n) + (IF n >= 2 THEN c ELSE 0)
    BY <1>1, <1>4, <1>6, <1>7, SumShift
  <2>2. W \in 0 .. W /\ W >= 2
    BY <1>4 DEF L
  <2>3. SumWords(z, W) \in Nat
    BY <2>2, <1>4, <1>6, SumUnfold
  <2> QED
    BY <2>1, <2>2, <2>3
<1>9. L % 2 = 1 => u[L] = z[L] /\ z[L] \in Nat
  <2> SUFFICES ASSUME L % 2 = 1 PROVE u[L] = z[L] /\ z[L] \in Nat
    OBVIOUS
  <2>1. L \in 1 .. L /\ L \notin {3, 4}
    BY <1>4 DEF L
  <2>2. z[L] \in Nat
    BY <2>1, <1>3, PacketWords
  <2> QED
    BY <2>1, <2>2, <1>2, <1>3
<1>10. /\ SumOf(u) = SumWords(u, W) + (IF L % 2 = 1 THEN u[L] ELSE 0)
       /\ SumOf(z) = SumWords(z, W) + (IF L % 2 = 1 THEN z[L] ELSE 0)
  BY <1>2, <1>3, <1>5 DEF SumOf
<1>11. SumOf(u) = SumOf(z) + c
  BY <1>1, <1>8, <1>9, <1>10
<1> QED
  BY <1>11 DEF u, z

(* net_checksum completes the sum to a multiple of Word - 1.               *)
LEMMA Complement ==
  ASSUME NEW p \in Seq(Bytes)
  PROVE  /\ net_checksum(p) \in 0 .. Word - 1
         /\ net_checksum(p) = Word - 1 - Residue(SumOf(p))
         /\ \E k \in Nat \ {0} : net_checksum(p) + SumOf(p) = (Word - 1) * k
<1> DEFINE M == Word - 1  s == SumOf(p)  r == Residue(s)  c == net_checksum(p)
<1>1. M \in Nat \ {0}
  BY WordFacts
<1>2. s \in Nat
  BY SumOfNat
<1>3. c = M - r
  BY <1>2, FoldIs DEF net_checksum
<1>4. PICK k \in Nat : s = M * k + r
  BY <1>2, ResidueFacts
<1>5. r \in 0 .. M
  BY <1>2, ResidueFacts
<1> HIDE DEF M, s, r, c
<1>6. c \in 0 .. M
  BY <1>1, <1>3, <1>5
<1>7. c + s = M * (k + 1) /\ k + 1 \in Nat \ {0}
  <2> DEFINE a == M * k
  <2>1. a \in Nat /\ M * (k + 1) = a + M /\ s = a + r
    BY <1>1, <1>4
  <2> HIDE DEF a
  <2>2. c + s = a + M
    BY <2>1, <1>1, <1>3, <1>5
  <2> QED
    BY <2>1, <2>2
<1>8. \E j \in Nat \ {0} : c + s = M * j
  BY <1>7
<1> QED
  BY <1>3, <1>6, <1>8 DEF M, s, r, c

LEMMA SumIsComplement ==
  ASSUME NEW p \in Seq(Bytes)
  PROVE  LET padded == IF Len(p) % 2 = 1 THEN Append(p, 0) ELSE p
         IN (net_checksum(p) + SumWords(padded, WordCount(padded))) % (Word - 1) = 0
<1> DEFINE padded == IF Len(p) % 2 = 1 THEN Append(p, 0) ELSE p
<1> DEFINE M == Word - 1  n == net_checksum(p) + SumOf(p)
<1>1. M \in Nat \ {0}
  BY WordFacts
<1>2. SumWords(padded, WordCount(padded)) = SumOf(p)
  <2>1. CASE Len(p) % 2 = 1
    BY <2>1, PaddedSum
  <2>2. CASE Len(p) % 2 # 1
    <3>1. SumOf(p) = SumWords(p, WordCount(p)) + 0 /\ padded = p
      BY <2>2 DEF SumOf
    <3>2. SumWords(p, WordCount(p)) \in Nat
      <4>1. WordCount(p) \in Nat /\ WordsIn(p, WordCount(p)) /\ WordCount(p) \in 0 .. WordCount(p)
        BY PacketWords
      <4> QED
        BY <4>1, SumUnfold
    <3> QED
      BY <3>1, <3>2
  <2> QED
    BY <2>1, <2>2
<1>3. PICK k \in Nat : n = M * k
  BY Complement
<1> HIDE DEF M, n, padded
<1>4. n % M = 0
  <2>1. M * k \in Nat /\ M * k = M * k + 0
    BY <1>1
  <2>2. (M * k + 0) % M = 0 % M
    BY <1>1, ModShift
  <2>3. 0 = M * 0 + 0 /\ 0 < M
    BY <1>1
  <2>4. 0 % M = 0
    BY <1>1, <2>3, DivUnique
  <2> QED
    BY <2>1, <2>2, <2>4, <1>3
<1> QED
  BY <1>2, <1>4 DEF M, n, padded

LEMMA SealIsAccepted ==
  ASSUME NEW p \in Seq(Bytes), Len(p) >= 4
  PROVE  net_checksum(Seal(p)) = 0
<1> DEFINE z == WithSum(p, 0)  c == net_checksum(z)  u == WithSum(p, c)
<1>1. 0 \in 0 .. Word - 1 /\ Byte \in Nat \ {0} /\ Word - 1 \in Nat \ {0}
  BY WordFacts
<1>2. z = [p EXCEPT ![3] = 0, ![4] = 0]
  <2>1. 0 = Byte * 0 + 0 /\ 0 < Byte
    BY <1>1
  <2>2. 0 % Byte = 0 /\ 0 \div Byte = 0
    BY <2>1, <1>1, DivUnique
  <2> QED
    BY <2>2, Zenon DEF WithSum
<1>3. Seal(p) = u
  <2> HIDE DEF z
  <2> QED
    BY <1>2 DEF Seal, WithSum
<1>4. z \in Seq(Bytes)
  BY <1>1, WithSumFacts
<1> HIDE DEF z
<1>5. c \in 0 .. Word - 1
  BY <1>4, Complement
<1>6. PICK k \in Nat \ {0} : c + SumOf(z) = (Word - 1) * k
  BY <1>4, Complement
<1> HIDE DEF c
<1>7. u \in Seq(Bytes)
  BY <1>5, WithSumFacts
<1>8. SumOf(u) = SumOf(z) + c
  BY <1>5, SealedSum DEF z
<1> DEFINE M == Word - 1
<1>9. M \in Nat \ {0} /\ M * k \in Nat \ {0}
  <2> HIDE DEF M
  <2>1. M \in Nat \ {0}
    BY <1>1 DEF M
  <2>2. M * 1 <= M * k /\ M * 1 = M /\ M * k \in Nat
    BY <2>1, MulMono
  <2> QED
    BY <2>1, <2>2
<1>10. SumOf(u) = M * k
  <2>1. SumOf(z) \in Nat /\ c \in Nat
    BY <1>4, <1>5, SumOfNat
  <2> QED
    BY <2>1, <1>6, <1>8
<1>11. Residue(SumOf(u)) = M
  BY <1>9, <1>10, ResidueFull
<1>12. net_checksum(u) = M - M
  BY <1>7, <1>11, Complement
<1> QED
  BY <1>3, <1>9, <1>12

(* Whatever bytes a packet is made of, and however many: net_checksum is   *)
(* the complement of their sum modulo Word - 1, and a receiver who sums up *)
(* a packet sealed with it (ipv4_send, icmp_handle, ping) gets zero.       *)
THEOREM SealedPacketsAreAccepted == PacketSpec => []ReceiverAccepts
<1> DEFINE Inv == packet \in Seq(Samples)
<1>1. PacketInit => Inv
  BY DEF PacketInit
<1>2. Inv /\ [PacketNext]_packet => Inv'
  <2> SUFFICES ASSUME Inv, [PacketNext]_packet PROVE Inv'
    OBVIOUS
  <2>1. ASSUME NEW b \in Samples, packet' = Append(packet, b) PROVE Inv'
    BY <2>1
  <2>2. CASE packet' = <<>>
    BY <2>2
  <2>3. CASE UNCHANGED packet
    BY <2>3
  <2> QED
    BY <2>1, <2>2, <2>3 DEF PacketNext
<1>3. Inv => ReceiverAccepts
  <2> SUFFICES ASSUME Inv PROVE ReceiverAccepts
    OBVIOUS
  <2>1. packet \in Seq(Bytes)
    <3>1. Samples \subseteq Bytes
      BY ChecksumAssumption DEF Bytes
    <3>2. packet \in [1 .. Len(packet) -> Samples] /\ Len(packet) \in Nat
      OBVIOUS
    <3>3. packet \in [1 .. Len(packet) -> Bytes]
      BY <3>1, <3>2
    <3> QED
      BY <3>2, <3>3, SeqDef
  <2>2. Len(packet) >= 4 => net_checksum(Seal(packet)) = 0
    BY <2>1, SealIsAccepted
  <2> QED
    BY <2>1, <2>2, SumIsComplement DEF ReceiverAccepts
<1> QED
  BY <1>1, <1>2, <1>3, PTL DEF PacketSpec
=============================================================================
