----------------------------- MODULE TimeAwareCache -----------------------------
(***************************************************************************)
(* The fixed-size table of recently heard packets of an ESP32 relay, as    *)
(* operators on a function from slots to entries.  The relay owns the      *)
(* variable.                                                               *)
(*                                                                         *)
(* seen_macs holds the senders stored in the first rx_count rows of the    *)
(* array; the rows above are never read.                                   *)
(*                                                                         *)
(* An operator whose name starts with Mutant is the operator after it with *)
(* a mistake in it: the invariants must tell the two apart.                *)
(***************************************************************************)
EXTENDS EmergencyPacket, FiniteSets, FiniteSetsExt

CONSTANTS
  Macs,              \* addresses of the neighbours that transmit
  CACHE_SIZE,
  CACHE_TTL_MS,
  MAX_TRACKED_MACS,
  UINT32             \* number of values of a uint32_t, 2^32 on the device

ASSUME CacheAssumption ==
  /\ CACHE_SIZE \in Nat \ {0}
  /\ CACHE_TTL_MS \in Nat
  /\ MAX_TRACKED_MACS \in Nat \ {0}
  /\ UINT32 \in Nat \ {0}

Slots == 0 .. CACHE_SIZE - 1
Millis == 0 .. UINT32 - 1
NotCached == -1

\* Unsigned addition of two uint32_t.
Plus32(a, b) == (a + b) % UINT32

CacheEntries ==
  [hmac : Frames \cup {NoFrame}, expires_at : Millis, rx_count : 0 .. MAX_TRACKED_MACS,
   active : BOOLEAN, broadcasted : BOOLEAN, broadcast_time : Millis,
   packet : [hmac_sig : Frames \cup {NoFrame}, flags : Byte], seen_macs : SUBSET Macs]

EmptyEntry ==
  [hmac |-> NoFrame, expires_at |-> 0, rx_count |-> 0, active |-> FALSE,
   broadcasted |-> FALSE, broadcast_time |-> 0, packet |-> ZeroPacket, seen_macs |-> {}]

EmptyCache == [i \in Slots |-> EmptyEntry]

(***************************************************************************)
(* checkCache: looks the signature up, from slot 0.  Entries met on the    *)
(* way whose lifetime is over are deactivated, the search stops at the     *)
(* first live entry with the signature, and that entry records a sender it *)
(* had not heard, up to MAX_TRACKED_MACS of them.                          *)
(***************************************************************************)
Expired(entry, now) == now >= entry.expires_at

\* Frames that were sent are not looked for.
MutantHits(cache, hmac, now) ==
  {i \in Slots : cache[i].active /\ ~cache[i].broadcasted /\ cache[i].hmac = hmac}

Hits(cache, hmac, now) ==
  {i \in Slots : cache[i].active /\ ~Expired(cache[i], now) /\ cache[i].hmac = hmac}

\* The search stops at the first live entry, whatever it holds.
MutantLocation(cache, hmac, now) ==
  LET live == {i \in Slots : cache[i].active /\ ~Expired(cache[i], now)} IN
  IF live # {} /\ cache[Min(live)].hmac = hmac THEN Min(live) ELSE NotCached

Location(cache, hmac, now) ==
  IF Hits(cache, hmac, now) = {} THEN NotCached ELSE Min(Hits(cache, hmac, now))

\* Every copy is counted, whoever sent it and however many were.
MutantRecordSender(entry, mac) ==
  [entry EXCEPT !.seen_macs = @ \cup {mac}, !.rx_count = @ + 1]

RecordSender(entry, mac) ==
  IF mac \notin entry.seen_macs /\ entry.rx_count < MAX_TRACKED_MACS
  THEN [entry EXCEPT !.seen_macs = @ \cup {mac}, !.rx_count = @ + 1]
  ELSE entry

Deactivate(entry) == [entry EXCEPT !.active = FALSE]

CheckCache(cache, hmac, now, mac) ==
  LET location == Location(cache, hmac, now)
      visited(i) == location = NotCached \/ i < location
  IN  [i \in Slots |->
         CASE i = location -> RecordSender(cache[i], mac)
           [] visited(i) /\ Expired(cache[i], now) -> Deactivate(cache[i])
           [] OTHER -> cache[i]]

(***************************************************************************)
(* addToCache: the new entry goes to the first slot that is free or        *)
(* expired, and to the slot that expires first when there is none.         *)
(***************************************************************************)
FreeSlots(cache, now) == {i \in Slots : ~cache[i].active \/ Expired(cache[i], now)}

\* The entry that expires last is taken.
MutantOldestSlots(cache) ==
  {i \in Slots : \A j \in Slots : cache[i].expires_at >= cache[j].expires_at}

OldestSlots(cache) ==
  {i \in Slots : \A j \in Slots : cache[i].expires_at <= cache[j].expires_at}

TargetSlot(cache, now) ==
  IF FreeSlots(cache, now) # {} THEN Min(FreeSlots(cache, now)) ELSE Min(OldestSlots(cache))

NewEntry(packet, now, jitter, mac) ==
  [hmac |-> packet.hmac_sig, packet |-> packet,
   expires_at |-> Plus32(now, CACHE_TTL_MS), broadcast_time |-> Plus32(now, jitter),
   rx_count |-> 1, seen_macs |-> {mac}, active |-> TRUE, broadcasted |-> FALSE]

\* The addresses of the frame that held the slot before are kept.
MutantAddToCache(cache, packet, now, jitter, mac) ==
  LET target == TargetSlot(cache, now)
      kept == [NewEntry(packet, now, jitter, mac) EXCEPT
                 !.seen_macs = cache[target].seen_macs, !.rx_count = cache[target].rx_count]
  IN  [i \in Slots |->
         IF i = target THEN RecordSender(kept, mac)
         ELSE IF i \in FreeSlots(cache, now) THEN Deactivate(cache[i]) ELSE cache[i]]

AddToCache(cache, packet, now, jitter, mac) ==
  LET free == FreeSlots(cache, now)
      target == TargetSlot(cache, now)
  IN  [i \in Slots |->
         CASE i = target -> NewEntry(packet, now, jitter, mac)
           [] i # target /\ i \in free -> Deactivate(cache[i])
           [] OTHER -> cache[i]]

=================================================================================
