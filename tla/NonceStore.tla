---------------------------- MODULE NonceStore ----------------------------
(***************************************************************************)
(* InMemoryNonceStore (icebreaker-nonce): what one critical section of the *)
(* store does to its map.  The map is a total function from nonces to      *)
(* entries; a nonce the code's HashMap does not hold has the entry Absent, *)
(* which no stored entry equals since a stored count is at least 1.        *)
(*                                                                         *)
(* Times are ticks of the monotonic clock (std::time::Instant).            *)
(***************************************************************************)
EXTENDS Integers

CONSTANTS
    None,    \* an absent Option
    U32Max   \* u32::MAX, the ceiling of NonceEntry::uses

ASSUME U32MaxAssumption == U32Max \in Nat \ {0}
ASSUME NoneAssumption == None \notin Nat

\* NonceEntry
Entry == [uses : 0..U32Max, expires_at : Nat]
Absent == [uses |-> 0, expires_at |-> 0]
Present(entry) == entry.uses > 0

\* u32::saturating_add(1)
SaturatingIncrement(uses) == IF uses < U32Max THEN uses + 1 ELSE U32Max

\* "if let Some(max) = max_uses { if new_count > max"
Exceeds(count, max_uses) == max_uses # None /\ count > max_uses

\* The entry is stale for a caller that read the clock at `now`.
Stale(entry, now) == entry.expires_at <= now

-----------------------------------------------------------------------------
(* check_and_record, the part under the write lock                         *)

\* A first use, or the first one after the entry went stale, is counted from 1.
CountsAfresh(entry, now) == ~Present(entry) \/ Stale(entry, now)

\* Mutant: the count before the use is compared, one use late.
AllowsOneMore(entry, max_uses, now) ==
    \/ CountsAfresh(entry, now)
    \/ ~Exceeds(entry.uses, max_uses)

\* CheckResult::Allowed.  A stale entry is reused whatever the limit says.
Allows(entry, max_uses, now) ==
    \/ ~Present(entry) /\ max_uses # 0
    \/ Present(entry) /\ Stale(entry, now)
    \/ /\ Present(entry) /\ ~Stale(entry, now)
       /\ ~Exceeds(SaturatingIncrement(entry.uses), max_uses)

\* The entry an Allowed use leaves: the count moves on, the TTL restarts.
Recorded(entry, now, expires_at) ==
    [uses |-> IF CountsAfresh(entry, now) THEN 1 ELSE SaturatingIncrement(entry.uses),
     expires_at |-> expires_at]

\* Mutant: a refused attempt is counted.
RefusedCounts(entry) ==
    [entry EXCEPT !.uses = SaturatingIncrement(@)]

\* CheckResult::Denied leaves the entry, count and TTL, as it was.
Refused(entry) == entry

\* get_use_count: the count while the entry is not stale.
UseCount(entry, now) == IF entry.expires_at > now THEN entry.uses ELSE 0

-----------------------------------------------------------------------------
(* start_cleanup_task and cleanup: entries.retain(|e| e.expires_at > now)   *)

\* Mutant: the comparison turned around.
RetainStale(entries, now) ==
    [n \in DOMAIN entries |->
        IF Stale(entries[n], now) THEN entries[n] ELSE Absent]

\* Mutant: nothing is ever evicted.
RetainAll(entries, now) == entries

Retain(entries, now) ==
    [n \in DOMAIN entries |->
        IF entries[n].expires_at > now THEN entries[n] ELSE Absent]
=============================================================================
