--------------------------- MODULE BroadcastKeys ----------------------------
(***************************************************************************)
(* The broadcast_keys table, BroadcastKeyManagement, which rotates and     *)
(* sweeps it, and run_broadcast_loop, its only caller.                     *)
(*                                                                         *)
(* Each SQL statement is one step and may fail; a rotation is two          *)
(* statements with no transaction around them, and the process may crash   *)
(* and restart between any two steps while the table survives.  Time is    *)
(* relative: a row holds the seconds left until rotates_at and expires_at, *)
(* 0 once they have passed, which is all that the queries tell apart.      *)
(***************************************************************************)
EXTENDS Integers, FiniteSets

CONSTANTS KeyIds,         \* the 4-byte key ids
          None,
          KeyRotation,    \* rotation_interval
          KeyExpiry,      \* key_expiry
          DbDelay,        \* bound: seconds one cycle spends in the database
          PublishDelay    \* bound: seconds one cycle spends publishing

ASSUME NoneAssumption == None \notin KeyIds
ASSUME DelayAssumption ==
    {KeyRotation, KeyExpiry, DbDelay, PublishDelay} \subseteq Nat

VARIABLES keys,      \* the table: KeyIds -> Row or None
          at,        \* where run_broadcast_loop is
          kid,       \* the key this cycle announces
          spent,     \* seconds since the cycle last read the clock
          phase,     \* unix_now() modulo the length of a slot
          slot_lag   \* slots begun since the announced token was derived

vars == <<keys, at, kid, spent, phase, slot_lag>>

Row == [is_active: BOOLEAN, rotates_in: 0..KeyRotation, expires_in: 0..KeyExpiry]

ASSUME NoneIsNoRow == None \notin Row

\* generate_token divides by rotation_interval.as_secs().max(1).
SlotLength == IF KeyRotation = 0 THEN 1 ELSE KeyRotation

\* The loop is in the database, or publishing.
InDb == at \in {"rotate", "insert", "sweep"}
Bound == IF InDb THEN DbDelay ELSE PublishDelay

TypeOK ==
    /\ keys \in [KeyIds -> Row \cup {None}]
    /\ at \in {"idle", "rotate", "insert", "sweep", "publish"}
    /\ kid \in KeyIds \cup {None}
    /\ kid # None <=> at \in {"sweep", "publish"}
    /\ spent \in 0..Bound
    /\ phase \in 0..(SlotLength - 1)
    /\ slot_lag \in Nat

Init ==
    /\ keys = [k \in KeyIds |-> None]
    /\ at = "idle"
    /\ kid = None
    /\ spent = 0
    /\ phase = 0
    /\ slot_lag = 0

Stored == {k \in KeyIds : keys[k] # None}
Active == {k \in Stored : keys[k].is_active}

-----------------------------------------------------------------------------
(* get_or_rotate_key.                                                      *)

\* The rows that the SELECT may return.
UsableButLast == {k \in Active : keys[k].rotates_in > 1}
Usable == {k \in Active : keys[k].rotates_in > 0}

\* interval.tick() fires, and the SELECT finds the current key ...
SelectFound(k) ==
    /\ at = "idle"
    /\ k \in Usable
    /\ \A j \in Usable : keys[j].rotates_in <= keys[k].rotates_in
    /\ at' = "sweep" /\ kid' = k /\ spent' = 0
    /\ UNCHANGED <<keys, phase, slot_lag>>

\* ... or finds none, and rotate_key begins.  A failed SELECT skips the cycle
\* and leaves everything as it was.
SelectNone ==
    /\ at = "idle"
    /\ Usable = {}
    /\ at' = "rotate" /\ spent' = 0
    /\ UNCHANGED <<keys, kid, phase, slot_lag>>

\* A statement failed: the error goes up to the loop, which skips the cycle.
SkipCycle ==
    /\ at' = "idle" /\ spent' = 0
    /\ UNCHANGED <<keys, kid, phase, slot_lag>>

\* The UPDATE that retires every active row.
RetireNothing == keys
RetireAll ==
    [k \in KeyIds |-> IF k \in Active THEN [keys[k] EXCEPT !.is_active = FALSE]
                      ELSE keys[k]]

\* rotate_key reads the clock for the new row, then runs the UPDATE.
Retire ==
    /\ at = "rotate"
    /\ keys' = RetireAll
    /\ at' = "insert" /\ spent' = 0
    /\ UNCHANGED <<kid, phase, slot_lag>>

RetireFails == at = "rotate" /\ SkipCycle

\* What is left of d seconds after those spent since the clock was read.
Left(d) == IF d > spent THEN d - spent ELSE 0

NewRetiredRow ==
    [is_active |-> FALSE, rotates_in |-> Left(KeyRotation),
     expires_in |-> Left(KeyExpiry)]
NewRow == [is_active |-> TRUE, rotates_in |-> Left(KeyRotation),
           expires_in |-> Left(KeyExpiry)]

\* The INSERT, with a random id k that no row has yet.
Insert(k) ==
    /\ at = "insert"
    /\ keys[k] = None
    /\ keys' = [keys EXCEPT ![k] = NewRow]
    /\ at' = "sweep" /\ kid' = k
    /\ UNCHANGED <<spent, phase, slot_lag>>

\* The INSERT fails: the database does, or the random id is in the table.
InsertFails == at = "insert" /\ SkipCycle

-----------------------------------------------------------------------------
(* The rest of a cycle.                                                    *)

\* sweep_expired: DELETE ... WHERE expires_at <= now.
SweptRotated == {k \in Stored : keys[k].rotates_in = 0}
SweptActive == {k \in Active : keys[k].expires_in = 0}
Swept == {k \in Stored : keys[k].expires_in = 0}

\* The token is derived after the sweep and serves the whole cycle.
TokenKept == UNCHANGED slot_lag
FreshToken == slot_lag' = 0

Announce ==
    /\ at = "sweep"
    /\ FreshToken
    /\ at' = "publish" /\ spent' = 0
    /\ UNCHANGED <<kid, phase>>

SweepExpired ==
    /\ Announce
    /\ keys' = [k \in KeyIds |-> IF k \in Swept THEN None ELSE keys[k]]

\* An error of the sweep is only logged.  Bound: the ids of the model, unlike
\* the 2^32 of the code, could run out, so a full table is swept.
SweepFails == Announce /\ Stored # KeyIds /\ UNCHANGED keys

\* The payload has been published to every topic.
EndCycle ==
    /\ at = "publish"
    /\ at' = "idle" /\ kid' = None /\ spent' = 0
    /\ UNCHANGED <<keys, phase, slot_lag>>

\* The process dies and is started again; the table survives.
Crash ==
    /\ at # "idle"
    /\ at = "sweep" => Stored # KeyIds      \* bound, as for SweepFails
    /\ at' = "idle" /\ kid' = None /\ spent' = 0
    /\ UNCHANGED <<keys, phase, slot_lag>>

-----------------------------------------------------------------------------

Minus1(n) == IF n = 0 THEN 0 ELSE n - 1

Older(row) ==
    [row EXCEPT !.rotates_in = Minus1(@), !.expires_in = Minus1(@)]

\* A second passes.  In a cycle the bounds limit how many do.
Tick ==
    /\ at # "idle" => spent < Bound
    /\ spent' = IF at = "idle" THEN 0 ELSE spent + 1
    /\ keys' = [k \in KeyIds |-> IF keys[k] = None THEN None ELSE Older(keys[k])]
    /\ phase' = (phase + 1) % SlotLength
    /\ slot_lag' = IF at = "publish" /\ phase' = 0 THEN slot_lag + 1 ELSE slot_lag
    /\ UNCHANGED <<at, kid>>

Next ==
    \/ \E k \in KeyIds : SelectFound(k)
    \/ SelectNone
    \/ Retire
    \/ RetireFails
    \/ \E k \in KeyIds : Insert(k)
    \/ InsertFails
    \/ SweepExpired
    \/ SweepFails
    \/ EndCycle
    \/ Crash
    \/ Tick

Spec == Init /\ [][Next]_vars

\* The loop keeps running its cycles and time passes.  The database does not
\* fail, and the process does not crash, every single time.
Fairness ==
    /\ WF_vars((\E k \in KeyIds : SelectFound(k)) \/ SelectNone)
    /\ WF_vars(EndCycle)
    /\ SF_vars(Retire)
    /\ SF_vars(\E k \in KeyIds : Insert(k))
    /\ SF_vars(SweepExpired)
    /\ WF_vars(Tick)

FairSpec == Spec /\ Fairness

-----------------------------------------------------------------------------
(* Properties.                                                             *)

\* However rotations fail or crash between their two statements, the table
\* never has two active keys (rotate_key).
AtMostOneActive == \A j, k \in Active : j = k

\* With the "Must be greater than" of KEY_EXPIRY strengthened by the time a
\* cycle spends in the database, the key that run_broadcast_loop announces is
\* in the table and is its active key, for as long as it is announced: the
\* sweep of the same cycle has not deleted it.
AnnouncedKeyStored ==
    KeyRotation + DbDelay < KeyExpiry /\ at = "publish" => kid \in Active

\* A key is retired only once its rotates_at has passed: no crash, failed
\* statement or id collision makes get_or_rotate_key retire a current key.
RetiredOnlyWhenDue ==
    [][\A k \in KeyIds : k \in Active /\ k \notin Active'
                         => keys[k].rotates_in = 0]_vars

\* "They should accept tokens for slot, slot - 1, and slot + 1": the token is
\* derived once per cycle, and while its publishing takes no longer than a
\* slot, beacons that follow the comment on BroadcastKeyManagement accept it.
TokenSlotAccepted == PublishDelay <= SlotLength /\ at = "publish" => slot_lag <= 1

\* A rotation that failed after retiring the old key is made up for: a table
\* without a usable key has one again.
KeyRecovers ==
    LET Current == \E k \in Active : keys[k].rotates_in > 0
    IN  ~Current ~> Current

\* Keys past expires_at are deleted, whichever sweeps fail.
ExpiredSwept ==
    \A k \in KeyIds :
      LET Expired == k \in Stored /\ keys[k].expires_in = 0
      IN  Expired ~> ~Expired
=============================================================================
