------------------------------ MODULE NetStack ------------------------------
(***************************************************************************)
(* The protocols of src/kernel/net (Ethernet, ARP, IPv4, ICMP) and the     *)
(* ping command, on a network that loses, duplicates and reorders frames.  *)
(* The other hosts are external: each has one address, answers ARP and     *)
(* echo requests, and may move to another card.  The kernel has one thread *)
(* and calls rtl8139_poll from nowhere inside a handler, so a frame is     *)
(* handled in one step; a handler sends at most one frame.  The driver is  *)
(* taken to return from every send (Rtl8139.tla says when it does).        *)
(***************************************************************************)
EXTENDS Integers, FiniteSets, FiniteSetsExt

CONSTANTS Hosts,           \* the addresses of the other hosts
          Macs,            \* the cards they may use
          SojebIp, SojebMac, Broadcast, Multicast,
          Data,            \* the payloads of the hosts' echo requests
          PingData,        \* the payload of ours
          ARP_CACHE_SIZE,
          WireBound,       \* frames under way; more are lost
          MoveBound,       \* how often hosts change their cards
          Strays,          \* TRUE: frames the stack must ignore arrive too
          AllocFails,      \* TRUE: kmalloc may answer NULL
          NULL

ASSUME NetStackAssumption ==
  /\ ARP_CACHE_SIZE \in Nat \ {0} /\ WireBound \in Nat /\ MoveBound \in Nat
  /\ SojebIp \notin Hosts /\ Broadcast \notin Hosts
  /\ NULL \notin Macs /\ NULL \notin [ip : Hosts, mac : Macs]
  /\ Macs \cap {SojebMac, Broadcast, Multicast} = {}
  /\ Strays \in BOOLEAN /\ AllocFails \in BOOLEAN

VARIABLES arp_cache,  \* slot -> NULL or [ip, mac]
          heard,      \* ip -> the MAC of its last ARP packet handled here
          wire,       \* the frames under way
          card,       \* host -> its MAC
          moves,      \* how often a host has moved
          knows,      \* the hosts that know our MAC
          asked,      \* host -> payloads of its echo requests
          pinged,     \* the addresses we sent an echo request to
          shown       \* the addresses "Received reply from" was printed for

kernel == <<arp_cache, heard, shown, pinged>>
hosts == <<card, moves, knows, asked>>
vars == <<kernel, hosts, wire>>

Slots == 1 .. ARP_CACHE_SIZE

Init == /\ arp_cache = [i \in Slots |-> NULL]
        /\ heard = [h \in Hosts |-> NULL]
        /\ card \in [Hosts -> Macs] /\ \A g, h \in Hosts : card[g] = card[h] => g = h
        /\ moves = 0 /\ wire = {} /\ knows = {} /\ asked = [h \in Hosts |-> {}]
        /\ pinged = {} /\ shown = {}
-----------------------------------------------------------------------------
(* Frames: Ethernet destination and what the handlers look at.  full says  *)
(* that no layer finds the packet shorter than its header.                 *)

Arp(to, op, sip, smac, tip) ==
  [to |-> to, type |-> "arp", full |-> TRUE, op |-> op, sip |-> sip, smac |-> smac, tip |-> tip]

Echo(to, op, sip, tip, data) ==
  [to |-> to, type |-> "ipv4", full |-> TRUE, op |-> op, sip |-> sip, tip |-> tip, data |-> data]

(* Of the frames sent, those that are not lost join the ones under way.    *)
Emit(sent, under, lost) ==
  wire' = IF lost \/ Cardinality(under \cup sent) > WireBound THEN under ELSE under \cup sent

(* A frame that was delivered may arrive a second time.                    *)
Left(f, again) == IF again THEN wire ELSE wire \ {f}
-----------------------------------------------------------------------------
(* arp.c.                                                                  *)

ArpSlotUnused(ip) == {i \in Slots : arp_cache[i] = NULL}   \* mutant: no test of the address

(* The slots at which the loop of arp_handle_packet may stop.              *)
ArpSlot(ip) == {i \in Slots : arp_cache[i] = NULL \/ arp_cache[i].ip = ip}

ArpSavesRequests(f) ==   \* mutant: replies are not saved
  IF f.op # "request" \/ ArpSlot(f.sip) = {} THEN arp_cache
  ELSE [arp_cache EXCEPT ![Min(ArpSlot(f.sip))] = [ip |-> f.sip, mac |-> f.smac]]

ArpSave(f) ==
  IF ArpSlot(f.sip) = {} THEN arp_cache
  ELSE [arp_cache EXCEPT ![Min(ArpSlot(f.sip))] = [ip |-> f.sip, mac |-> f.smac]]

ArpReply(f) ==
  IF f.op = "request" /\ f.tip = SojebIp
  THEN {Arp(f.smac, "reply", SojebIp, SojebMac, f.sip)} ELSE {}

arp_send_request(ip) == {Arp(Broadcast, "request", SojebIp, SojebMac, ip)}

arp_lookup(ip) ==
  LET at == {i \in Slots : arp_cache[i] # NULL /\ arp_cache[i].ip = ip}
  IN IF at = {} THEN NULL ELSE arp_cache[Min(at)].mac
-----------------------------------------------------------------------------
(* ipv4.c and icmp.c.                                                      *)

ipv4_send(ip, op, data, alloc) ==
  IF ~alloc THEN {}
  ELSE IF arp_lookup(ip) # NULL THEN {Echo(arp_lookup(ip), op, SojebIp, ip, data)}
  ELSE arp_send_request(ip)

IcmpReplyToAnyone(f, alloc) ==   \* mutant: the sender is not put in for the target
  IF f.op = "echo" THEN ipv4_send(CHOOSE h \in Hosts : TRUE, "echoreply", f.data, alloc) ELSE {}

IcmpReply(f, alloc) ==
  IF f.op = "echo" THEN ipv4_send(f.sip, "echoreply", f.data, alloc) ELSE {}

(* The filter of ipv4_handle_packet.                                       *)
AcceptsIpv4(f) == f.type = "ipv4" /\ f.full /\ f.tip \in {SojebIp, Broadcast}

(* The filter of ethernet_handle_packet.                                   *)
ForUs(f) == f.to \in {SojebMac, Broadcast}

HandleArp(f, again, lost) ==
  /\ ForUs(f) /\ f.type = "arp" /\ f.full
  /\ arp_cache' = ArpSave(f)
  /\ heard' = [heard EXCEPT ![f.sip] = f.smac]
  /\ Emit(ArpReply(f), Left(f, again), lost)
  /\ UNCHANGED <<shown, pinged, hosts>>

HandleEcho(f, again, lost, alloc) ==
  /\ ForUs(f) /\ AcceptsIpv4(f) /\ f.op = "echo"
  /\ Emit(IcmpReply(f, alloc), Left(f, again), lost)
  /\ UNCHANGED <<kernel, hosts>>

HandleEchoReply(f, again) ==
  /\ ForUs(f) /\ AcceptsIpv4(f) /\ f.op = "echoreply"
  /\ shown' = shown \cup {f.sip}
  /\ wire' = Left(f, again)
  /\ UNCHANGED <<arp_cache, heard, pinged, hosts>>

(* Frames that the card's filter lets through and a handler drops.         *)
Ignore(f) ==
  /\ ~ForUs(f) \/ (f.type = "arp" /\ ~f.full) \/ (f.type = "ipv4" /\ ~AcceptsIpv4(f)) \/ f.type = "other"
  /\ wire' = wire \ {f}
  /\ UNCHANGED <<kernel, hosts>>

(* The frames our card accepts: init sets broadcast, multicast and own.    *)
Arriving == {f \in wire : f.to \in {SojebMac, Broadcast, Multicast} /\ f.sip # SojebIp}

Allocs == IF AllocFails THEN BOOLEAN ELSE {TRUE}

(* command_ping.  When kmalloc has no block for the request, temp is NULL   *)
(* and the request is built at address 0, which is mapped and holds        *)
(* nothing the kernel reads: the same frame goes out.                      *)
command_ping(ip, lost, alloc) ==
  /\ Emit(ipv4_send(ip, "echo", PingData, alloc), wire, lost)
  /\ pinged' = pinged \cup {ip}
  /\ UNCHANGED <<arp_cache, heard, shown, hosts>>
-----------------------------------------------------------------------------
(* The other hosts.                                                        *)

HostAsksArp(h, lost) ==
  /\ Emit({Arp(Broadcast, "request", h, card[h], SojebIp)}, wire, lost)
  /\ UNCHANGED <<kernel, hosts>>

HostHandlesArp(f, h, again, lost) ==
  /\ f.type = "arp" /\ f.sip = SojebIp /\ f.to \in {Broadcast, card[h]}
  /\ knows' = knows \cup {h}
  /\ Emit(IF f.op = "request" /\ f.tip = h
          THEN {Arp(SojebMac, "reply", h, card[h], SojebIp)} ELSE {}, Left(f, again), lost)
  /\ UNCHANGED <<kernel, card, moves, asked>>

HostPings(h, d, lost) ==
  /\ h \in knows
  /\ asked' = [asked EXCEPT ![h] = @ \cup {d}]
  /\ Emit({Echo(SojebMac, "echo", h, SojebIp, d)}, wire, lost)
  /\ UNCHANGED <<kernel, card, moves, knows>>

HostHandlesEcho(f, h, again, lost) ==
  /\ f.type = "ipv4" /\ f.sip = SojebIp /\ f.to = card[h]
  /\ Emit(IF f.op = "echo" /\ f.tip = h
          THEN {Echo(SojebMac, "echoreply", h, SojebIp, f.data)} ELSE {}, Left(f, again), lost)
  /\ UNCHANGED <<kernel, hosts>>

(* A host gets another card, perhaps one that another host had.            *)
HostMoves(h, m) ==
  /\ moves < MoveBound /\ \A g \in Hosts : card[g] # m
  /\ card' = [card EXCEPT ![h] = m] /\ moves' = moves + 1
  /\ UNCHANGED <<kernel, knows, asked, wire>>

(* A frame that is not for us, not for our address, too short or of a      *)
(* protocol the stack does not speak.                                      *)
Stray(h) ==
  {[Arp(Multicast, "request", h, card[h], SojebIp) EXCEPT !.full = u] : u \in BOOLEAN} \cup
  {[Arp(SojebMac, "reply", h, card[h], SojebIp) EXCEPT !.full = FALSE],
   Echo(SojebMac, "echoreply", h, h, PingData),
   [to |-> Broadcast, type |-> "other", sip |-> h, tip |-> SojebIp]}

HostStrays(h, lost) ==
  /\ Strays /\ \E f \in Stray(h) : Emit({f}, wire, lost)
  /\ UNCHANGED <<kernel, hosts>>

Lose(f) == wire' = wire \ {f} /\ UNCHANGED <<kernel, hosts>>
-----------------------------------------------------------------------------
Kernel == \E again, lost \in BOOLEAN, alloc \in Allocs :
            \/ \E f \in Arriving : \/ HandleArp(f, again, lost)
                                   \/ HandleEcho(f, again, lost, alloc)
                                   \/ HandleEchoReply(f, again)
                                   \/ Ignore(f)
            \/ \E ip \in Hosts : command_ping(ip, lost, alloc)

Others == \E h \in Hosts, again, lost \in BOOLEAN :
            \/ HostAsksArp(h, lost)
            \/ \E f \in wire : HostHandlesArp(f, h, again, lost) \/ HostHandlesEcho(f, h, again, lost)
            \/ \E d \in Data : HostPings(h, d, lost)
            \/ \E m \in Macs : HostMoves(h, m)
            \/ HostStrays(h, lost)

Next == Kernel \/ Others \/ \E f \in wire : Lose(f)

Spec == Init /\ [][Next]_vars

(* The user goes on pinging every host, and of the frames of each kind     *)
(* that are sent to or by a host again and again some arrive.              *)
FairFor(h) ==
  /\ SF_vars(command_ping(h, FALSE, TRUE) /\ wire' # wire)
  /\ SF_vars(\E f \in Arriving : f.sip = h /\ HandleArp(f, FALSE, FALSE))
  /\ SF_vars(\E f \in Arriving : f.sip = h /\ HandleEchoReply(f, FALSE))
  /\ SF_vars(\E f \in wire : f.tip = h /\ HostHandlesArp(f, h, FALSE, FALSE))
  /\ SF_vars(\E f \in wire : f.tip = h /\ HostHandlesEcho(f, h, FALSE, FALSE))

(* Sent to a card that its address has no longer.                          *)
Astray(f) == f.sip = SojebIp /\ f.to # Broadcast /\ card[f.tip] # f.to

(* What went astray does not stay under way.                               *)
FairSpec == /\ Spec /\ \A h \in Hosts : FairFor(h)
            /\ WF_vars(\E f \in wire : Astray(f) /\ Lose(f))
-----------------------------------------------------------------------------
(* The cache holds, for every host it knows, the card of its last ARP      *)
(* packet, once; a host heard of is missing only when every slot holds     *)
(* another one.  Moves, duplicates and packets out of order included.      *)
CacheIsLastHeard ==
  \A h \in Hosts :
    /\ Cardinality({i \in Slots : arp_cache[i] # NULL /\ arp_cache[i].ip = h}) <= 1
    /\ \/ arp_lookup(h) = heard[h]
       \/ arp_lookup(h) = NULL /\ \A i \in Slots : arp_cache[i] # NULL

(* An echo reply goes to a host that asked, with the payload it sent, and  *)
(* "Received reply from" is printed only for addresses that were pinged:   *)
(* the swap of addresses survives loss, duplicates and moves.              *)
AnswersMatchRequests ==
  /\ \A f \in wire : f.type = "ipv4" /\ f.sip = SojebIp /\ f.op = "echoreply" => f.data \in asked[f.tip]
  /\ shown \subseteq pinged

(* The ways in which a cache that never forgets an entry shuts a host out: *)
(* it holds the card the host had before, or nothing but other hosts.      *)
ShutOut(h) == \/ arp_lookup(h) \notin {NULL, card[h]}
              \/ arp_lookup(h) = NULL /\ \A i \in Slots : arp_cache[i] # NULL

(* Whoever keeps pinging a host gets an answer in the end: the ARP request *)
(* of the first attempts leads to an echo request of a later one.  Only a  *)
(* host that the cache shuts out for ever may stay silent.                 *)
PingAnswered == \A h \in Hosts : <>(h \in shown) \/ <>[]ShutOut(h)
=============================================================================
