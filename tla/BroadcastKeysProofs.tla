------------------------- MODULE BroadcastKeysProofs ------------------------
(***************************************************************************)
(* Proofs about BroadcastKeys, for every set of ids, every rotation and    *)
(* expiry time and every bound on the delays.                              *)
(***************************************************************************)
EXTENDS BroadcastKeys, TLAPS

(***************************************************************************)
(* Types.                                                                  *)
(***************************************************************************)

\* The clock's position in a slot advances by one and wraps (unix_now divided
\* by the rotation interval in generate_token).
LEMMA NextPhase ==
    ASSUME NEW p \in 0..(SlotLength - 1)
    PROVE  (p + 1) % SlotLength = IF p + 1 = SlotLength THEN 0 ELSE p + 1
<1>1. SlotLength \in Nat \ {0}
  BY DelayAssumption DEF SlotLength
<1> QED
  BY <1>1

\* A second passing keeps the fields of a row in range (rotates_at, expires_at).
LEMMA OlderType ==
    ASSUME NEW r \in Row
    PROVE  /\ Older(r) \in Row
           /\ Older(r).is_active = r.is_active
           /\ Older(r).rotates_in = Minus1(r.rotates_in)
           /\ Older(r).expires_in = Minus1(r.expires_in)
<1>1. r.is_active \in BOOLEAN /\ r.rotates_in \in 0..KeyRotation /\ r.expires_in \in 0..KeyExpiry
  BY DEF Row
<1>2. Minus1(r.rotates_in) \in 0..KeyRotation /\ Minus1(r.expires_in) \in 0..KeyExpiry
  BY <1>1, DelayAssumption DEF Minus1
<1>3. /\ DOMAIN Older(r) = DOMAIN r
      /\ Older(r).rotates_in = Minus1(r.rotates_in)
      /\ Older(r).expires_in = Minus1(r.expires_in)
  BY DEF Older, Row
<1>4. Older(r).is_active = r.is_active
  BY DEF Older, Row
<1>5. Older(r) \in Row
  BY <1>1, <1>2 DEF Older, Row
<1> QED
  BY <1>3, <1>4, <1>5

\* The row that rotate_key inserts is well formed however long it took.
LEMMA NewRowType ==
    ASSUME TypeOK
    PROVE  NewRow \in Row
<1>1. spent \in Nat
  BY DelayAssumption DEF TypeOK, Bound
<1>2. /\ Left(KeyRotation) \in 0..KeyRotation
      /\ Left(KeyExpiry) \in 0..KeyExpiry
  BY <1>1, DelayAssumption DEF Left
<1> QED
  BY <1>2 DEF NewRow, Row

\* A row that the UPDATE of rotate_key has retired is well formed.
LEMMA RetiredRowType ==
    ASSUME NEW r \in Row
    PROVE  LET q == [r EXCEPT !.is_active = FALSE]
           IN  q \in Row /\ q.is_active = FALSE
               /\ q.rotates_in = r.rotates_in /\ q.expires_in = r.expires_in
BY DEF Row

\* Every step of the loop and of its clock keeps the state well formed.
LEMMA TypeStep == ASSUME TypeOK, [Next]_vars PROVE TypeOK'
<1>s. /\ SlotLength \in Nat \ {0} /\ DbDelay \in Nat /\ PublishDelay \in Nat
      /\ KeyRotation \in Nat /\ KeyExpiry \in Nat
  BY DelayAssumption DEF SlotLength
<1>0. CASE UNCHANGED vars
  BY <1>0 DEF vars, TypeOK, Bound, InDb
<1>1. ASSUME NEW k \in KeyIds, SelectFound(k) PROVE TypeOK'
  BY <1>1, <1>s, NoneAssumption DEF SelectFound, TypeOK, Bound, InDb
<1>2. CASE SelectNone
  BY <1>2, <1>s DEF SelectNone, TypeOK, Bound, InDb
<1>3. CASE Retire
  <2>1. RetireAll \in [KeyIds -> Row \cup {None}]
    BY RetiredRowType, NoneIsNoRow DEF RetireAll, TypeOK, Active, Stored
  <2> QED
    BY <1>3, <2>1, <1>s DEF Retire, TypeOK, Bound, InDb
<1>4. CASE RetireFails \/ InsertFails
  BY <1>4, <1>s DEF RetireFails, InsertFails, SkipCycle, TypeOK, Bound, InDb
<1>5. ASSUME NEW k \in KeyIds, Insert(k) PROVE TypeOK'
  <2>1. keys' \in [KeyIds -> Row \cup {None}]
    BY <1>5, NewRowType DEF Insert, TypeOK
  <2> QED
    BY <1>5, <2>1, <1>s, NoneAssumption DEF Insert, TypeOK, Bound, InDb
<1>6. CASE SweepExpired \/ SweepFails
  <2>1. keys' \in [KeyIds -> Row \cup {None}]
    BY <1>6 DEF SweepExpired, SweepFails, TypeOK
  <2> QED
    BY <1>6, <2>1, <1>s DEF SweepExpired, SweepFails, Announce, FreshToken, TypeOK, Bound, InDb
<1>7. CASE EndCycle \/ Crash
  BY <1>7, <1>s DEF EndCycle, Crash, TypeOK, Bound, InDb
<1>8. CASE Tick
  <2>1. keys' \in [KeyIds -> Row \cup {None}]
    BY <1>8, OlderType DEF Tick, TypeOK
  <2>2. phase' \in 0..(SlotLength - 1)
    BY <1>8, <1>s, NextPhase DEF Tick, TypeOK
  <2>3. spent' \in 0..Bound' /\ slot_lag' \in Nat
    BY <1>8, <1>s DEF Tick, TypeOK, Bound, InDb
  <2> QED
    BY <1>8, <2>1, <2>2, <2>3 DEF Tick, TypeOK
<1> QED
  BY <1>0, <1>1, <1>2, <1>3, <1>4, <1>5, <1>6, <1>7, <1>8 DEF Next

\* Every reachable state of the key table and of the loop is well formed.
THEOREM TypeCorrect == Spec => []TypeOK
<1>1. Init => TypeOK
  BY DelayAssumption DEF Init, TypeOK, Bound, InDb, SlotLength
<1> QED
  BY <1>1, TypeStep, PTL DEF Spec

(***************************************************************************)
(* One active key, and none retired before it is due.                      *)
(***************************************************************************)

\* Between the two statements of a rotation no key is active, and the rotation
\* was begun because no active key was usable; time only makes it less so.
RotationInv ==
    /\ AtMostOneActive
    /\ at = "rotate" => Usable = {}
    /\ at = "insert" => Active = {}

\* With KeyRotation <= KeyExpiry no row expires before it is due for rotation.
ExpiresLater == \A k \in Stored : keys[k].rotates_in <= keys[k].expires_in

\* Which rows a second leaves in the table, active and usable.
LEMMA TickRows ==
    ASSUME TypeOK, Tick
    PROVE  /\ Stored' = Stored /\ Active' = Active /\ Usable' \subseteq Usable
           /\ \A k \in Stored :
                 /\ keys'[k].rotates_in = Minus1(keys[k].rotates_in)
                 /\ keys'[k].expires_in = Minus1(keys[k].expires_in)
<1>1. \A k \in KeyIds : keys[k] \in Row \cup {None}
  BY DEF TypeOK
<1>2. \A k \in KeyIds : keys'[k] = IF keys[k] = None THEN None ELSE Older(keys[k])
  BY DEF Tick
<1>3. Stored' = Stored
  BY <1>1, <1>2, OlderType, NoneIsNoRow DEF Stored
<1>4. \A k \in Stored : /\ keys'[k].is_active = keys[k].is_active
                        /\ keys'[k].rotates_in = Minus1(keys[k].rotates_in)
                        /\ keys'[k].expires_in = Minus1(keys[k].expires_in)
  BY <1>1, <1>2, OlderType DEF Stored
<1>5. Active' = Active
  BY <1>3, <1>4 DEF Active
<1>6. \A k \in Stored : keys[k].rotates_in \in Nat
  BY <1>1, DelayAssumption DEF Stored, Row
<1>7. Usable' \subseteq Usable
  BY <1>4, <1>5, <1>6 DEF Usable, Active, Minus1
<1> QED
  BY <1>3, <1>4, <1>5, <1>7

\* After the UPDATE of rotate_key no row is active, and the times are as before.
LEMMA RetireRows ==
    ASSUME TypeOK, Retire
    PROVE  /\ Stored' = Stored /\ Active' = {}
           /\ \A k \in Stored : /\ keys'[k].rotates_in = keys[k].rotates_in
                                /\ keys'[k].expires_in = keys[k].expires_in
<1>1. \A k \in KeyIds : keys[k] \in Row \cup {None}
  BY DEF TypeOK
<1>2. \A k \in KeyIds : keys'[k] = IF k \in Active THEN [keys[k] EXCEPT !.is_active = FALSE]
                                   ELSE keys[k]
  BY DEF Retire, RetireAll
<1>3. \A k \in Active : /\ keys'[k] # None /\ keys'[k].is_active = FALSE
                        /\ keys'[k].rotates_in = keys[k].rotates_in
                        /\ keys'[k].expires_in = keys[k].expires_in
  <2>1. \A k \in Active : k \in KeyIds /\ keys[k] \in Row
    BY <1>1 DEF Active, Stored
  <2> SUFFICES ASSUME NEW k \in Active
               PROVE  /\ keys'[k] # None /\ keys'[k].is_active = FALSE
                      /\ keys'[k].rotates_in = keys[k].rotates_in
                      /\ keys'[k].expires_in = keys[k].expires_in
    OBVIOUS
  <2>2. keys'[k] = [keys[k] EXCEPT !.is_active = FALSE]
    BY <1>2, <2>1
  <2>3. keys[k] \in Row
    BY <2>1
  <2> QED
    BY <2>2, <2>3, RetiredRowType, NoneIsNoRow
<1>4. \A k \in KeyIds \ Active : keys'[k] = keys[k]
  BY <1>2
<1>5. Stored' = Stored
  BY <1>3, <1>4 DEF Stored, Active
<1> QED
  BY <1>3, <1>4, <1>5 DEF Stored, Active

\* The INSERT of rotate_key adds one active row.
LEMMA InsertRows ==
    ASSUME TypeOK, NEW k \in KeyIds, Insert(k)
    PROVE  /\ Stored' = Stored \cup {k} /\ k \notin Stored /\ Active' = Active \cup {k}
           /\ keys'[k] = NewRow
           /\ \A j \in Stored : keys'[j] = keys[j]
<1>1. keys'[k] = NewRow /\ \A j \in KeyIds \ {k} : keys'[j] = keys[j]
  BY DEF Insert, TypeOK
<1>2. NewRow # None /\ NewRow.is_active
  BY NewRowType, NoneIsNoRow DEF NewRow
<1>3. k \notin Stored /\ Stored \subseteq KeyIds /\ Active \subseteq Stored
  BY DEF Insert, Stored, Active
<1>4. Stored' = Stored \cup {k}
  BY <1>1, <1>2, <1>3 DEF Stored
<1>5. Active' = Active \cup {k}
  BY <1>1, <1>2, <1>3, <1>4 DEF Active
<1> QED
  BY <1>1, <1>3, <1>4, <1>5

\* The DELETE of sweep_expired takes exactly the expired rows.
LEMMA SweepRows ==
    ASSUME TypeOK, SweepExpired \/ SweepFails
    PROVE  /\ Stored' \subseteq Stored /\ Active' \subseteq Active
           /\ \A k \in Stored' : keys'[k] = keys[k]
           /\ \A k \in Stored : keys[k].expires_in # 0 => k \in Stored'
           /\ \A k \in Active : keys[k].expires_in # 0 => k \in Active'
<1>1. CASE SweepFails
  BY <1>1 DEF SweepFails, Stored, Active
<1>2. CASE SweepExpired
  BY <1>2 DEF SweepExpired, Stored, Active, Swept
<1> QED
  BY <1>1, <1>2

\* Steps that leave the table alone.
LEMMA SameRows ==
    ASSUME UNCHANGED keys
    PROVE  Stored' = Stored /\ Active' = Active /\ Usable' = Usable
BY DEF Stored, Active, Usable

\* No step breaks it, whichever statement of a rotation fails.
LEMMA RotationStep == ASSUME TypeOK, RotationInv, [Next]_vars PROVE RotationInv'
<1>0. CASE UNCHANGED vars
  BY <1>0, SameRows DEF vars, RotationInv, AtMostOneActive
<1>1. ASSUME NEW k \in KeyIds, SelectFound(k) PROVE RotationInv'
  BY <1>1, SameRows DEF SelectFound, RotationInv, AtMostOneActive
<1>2. CASE SelectNone
  BY <1>2, SameRows DEF SelectNone, RotationInv, AtMostOneActive
<1>3. CASE Retire
  BY <1>3, RetireRows DEF Retire, RotationInv, AtMostOneActive
<1>4. CASE RetireFails \/ InsertFails
  BY <1>4, SameRows DEF RetireFails, InsertFails, SkipCycle, RotationInv, AtMostOneActive
<1>5. ASSUME NEW k \in KeyIds, Insert(k) PROVE RotationInv'
  BY <1>5, InsertRows DEF Insert, RotationInv, AtMostOneActive
<1>6. CASE SweepExpired \/ SweepFails
  BY <1>6, SweepRows DEF SweepExpired, SweepFails, Announce, RotationInv, AtMostOneActive
<1>7. CASE EndCycle \/ Crash
  BY <1>7, SameRows DEF EndCycle, Crash, RotationInv, AtMostOneActive
<1>8. CASE Tick
  BY <1>8, TickRows DEF Tick, RotationInv, AtMostOneActive
<1> QED
  BY <1>0, <1>1, <1>2, <1>3, <1>4, <1>5, <1>6, <1>7, <1>8 DEF Next

\* Whatever statement fails and wherever the process dies, the table never has
\* two active keys (rotate_key).
THEOREM OneActiveKey == Spec => []AtMostOneActive
<1>1. Init => RotationInv
  BY DEF Init, RotationInv, AtMostOneActive, Active, Stored
<1>2. RotationInv => AtMostOneActive
  BY DEF RotationInv
<1> QED
  BY <1>1, <1>2, TypeCorrect, RotationStep, PTL DEF Spec

\* Rows are written, and grow older, with their two deadlines in this order.
LEMMA ExpiresLaterStep ==
    ASSUME KeyRotation <= KeyExpiry, TypeOK, ExpiresLater, [Next]_vars
    PROVE  ExpiresLater'
<1>t. \A k \in Stored : keys[k].rotates_in \in Nat /\ keys[k].expires_in \in Nat
  BY DelayAssumption DEF Stored, TypeOK, Row
<1>0. CASE UNCHANGED keys
  BY <1>0, SameRows DEF ExpiresLater
<1>3. CASE Retire
  BY <1>3, RetireRows DEF ExpiresLater
<1>5. ASSUME NEW k \in KeyIds, Insert(k) PROVE ExpiresLater'
  <2>1. spent \in Nat
    BY DelayAssumption DEF TypeOK, Bound
  <2>2. NewRow.rotates_in <= NewRow.expires_in
    BY <2>1, DelayAssumption DEF NewRow, Left
  <2> QED
    BY <1>5, <2>2, InsertRows DEF ExpiresLater
<1>6. CASE SweepExpired \/ SweepFails
  BY <1>6, SweepRows DEF ExpiresLater
<1>8. CASE Tick
  BY <1>8, <1>t, TickRows DEF ExpiresLater, Minus1
<1> QED
  BY <1>0, <1>3, <1>5, <1>6, <1>8
  DEF Next, vars, SelectFound, SelectNone, RetireFails, InsertFails, SkipCycle, EndCycle, Crash

\* A key ceases to be active only once its rotates_at has passed: no crash, no
\* failed statement and no sweep takes a current key away (get_or_rotate_key,
\* rotate_key, sweep_expired), if keys expire no earlier than they rotate.
THEOREM NoEarlyRetirement ==
    ASSUME KeyRotation <= KeyExpiry
    PROVE  Spec => RetiredOnlyWhenDue
<1> DEFINE Inv == TypeOK /\ RotationInv /\ ExpiresLater
           Due == \A k \in KeyIds : k \in Active /\ k \notin Active' => keys[k].rotates_in = 0
<1>1. Init => ExpiresLater /\ RotationInv
  BY DEF Init, ExpiresLater, Stored, RotationInv, AtMostOneActive, Active
<1>2. ASSUME Inv, [Next]_vars PROVE Inv'
  BY <1>2, TypeStep, RotationStep, ExpiresLaterStep
<1>3. ASSUME Inv, [Next]_vars PROVE [Due]_vars
  <2>t. \A k \in Stored : keys[k].rotates_in \in Nat /\ keys[k].expires_in \in Nat
    BY <1>3, DelayAssumption DEF Stored, TypeOK, Row
  <2>a. Active \subseteq Stored
    BY DEF Active
  <2>0. CASE UNCHANGED keys
    BY <2>0, SameRows
  <2>3. CASE Retire
    BY <1>3, <2>3, <2>t, <2>a DEF Retire, RotationInv, Usable
  <2>5. ASSUME NEW k \in KeyIds, Insert(k) PROVE Due
    BY <1>3, <2>5, InsertRows
  <2>6. CASE SweepExpired \/ SweepFails
    BY <1>3, <2>6, <2>t, <2>a, SweepRows DEF ExpiresLater
  <2>8. CASE Tick
    BY <1>3, <2>8, TickRows
  <2> QED
    BY <1>3, <2>0, <2>3, <2>5, <2>6, <2>8
    DEF Next, vars, SelectFound, SelectNone, RetireFails, InsertFails, SkipCycle, EndCycle, Crash
<1> HIDE DEF Due
<1>4. Spec => []Inv
  BY <1>1, <1>2, TypeCorrect, PTL DEF Spec
<1>5. Spec => [][Due]_vars
  BY <1>3, <1>4, PTL DEF Spec
<1> QED
  BY <1>5 DEF Due, RetiredOnlyWhenDue

(***************************************************************************)
(* The announced key and its token.                                        *)
(***************************************************************************)

\* A key that may still be used expires well after it: the two deadlines of a
\* row are KeyExpiry - KeyRotation apart.  So the key of this cycle outlives the
\* time that is left to the cycle's sweep.
AnnounceInv ==
    /\ \A k \in Stored : keys[k].rotates_in > 0 =>
          keys[k].expires_in >= keys[k].rotates_in + (KeyExpiry - KeyRotation)
    /\ at = "sweep" => kid \in Active /\ keys[kid].expires_in + spent > DbDelay
    /\ at = "publish" => kid \in Active

\* Selecting, inserting, sweeping and waiting keep the announced key in the table.
LEMMA AnnounceStep ==
    ASSUME KeyRotation + DbDelay < KeyExpiry, TypeOK, AnnounceInv, [Next]_vars
    PROVE  AnnounceInv'
<1>c. KeyRotation \in Nat /\ KeyExpiry \in Nat /\ DbDelay \in Nat /\ PublishDelay \in Nat
  BY DelayAssumption
<1>t. \A k \in Stored : keys[k].rotates_in \in Nat /\ keys[k].expires_in \in Nat
  BY DelayAssumption DEF Stored, TypeOK, Row
<1>s. spent \in Nat /\ (InDb => spent <= DbDelay)
  BY <1>c DEF TypeOK, Bound
<1>a. Active \subseteq Stored
  BY DEF Active
<1>0. CASE UNCHANGED vars
  BY <1>0, SameRows DEF vars, AnnounceInv
<1>1. ASSUME NEW k \in KeyIds, SelectFound(k) PROVE AnnounceInv'
  <2>1. k \in Active /\ keys[k].rotates_in > 0
    BY <1>1 DEF SelectFound, Usable
  <2>2. keys[k].expires_in + 0 > DbDelay
    BY <2>1, <1>a, <1>t, <1>c DEF AnnounceInv
  <2> QED
    BY <1>1, <2>1, <2>2, SameRows DEF SelectFound, AnnounceInv
<1>2. CASE SelectNone
  BY <1>2, SameRows DEF SelectNone, AnnounceInv
<1>3. CASE Retire
  BY <1>3, RetireRows DEF Retire, AnnounceInv
<1>4. CASE RetireFails \/ InsertFails
  BY <1>4, SameRows DEF RetireFails, InsertFails, SkipCycle, AnnounceInv
<1>5. ASSUME NEW k \in KeyIds, Insert(k) PROVE AnnounceInv'
  <2>1. spent <= DbDelay
    BY <1>5, <1>s DEF Insert, InDb
  <2>2. NewRow.expires_in = KeyExpiry - spent
    BY <2>1, <1>s, <1>c DEF NewRow, Left
  <2>3. NewRow.rotates_in > 0 => NewRow.rotates_in = KeyRotation - spent
    BY <1>s, <1>c DEF NewRow, Left
  <2>4. NewRow.rotates_in > 0 =>
          NewRow.expires_in >= NewRow.rotates_in + (KeyExpiry - KeyRotation)
    BY <2>2, <2>3, <1>s, <1>c
  <2>5. NewRow.expires_in + spent > DbDelay
    BY <2>2, <1>s, <1>c
  <2> QED
    BY <1>5, <2>4, <2>5, InsertRows DEF Insert, AnnounceInv
<1>6. CASE SweepExpired \/ SweepFails
  <2>1. at = "sweep" /\ at' = "publish" /\ kid' = kid
    BY <1>6 DEF SweepExpired, SweepFails, Announce
  <2>2. keys[kid].expires_in # 0 /\ kid \in Active
    BY <2>1, <1>s, <1>a, <1>t, <1>c DEF AnnounceInv, InDb
  <2> QED
    BY <1>6, <2>1, <2>2, SweepRows DEF AnnounceInv
<1>7. CASE EndCycle \/ Crash
  BY <1>7, SameRows DEF EndCycle, Crash, AnnounceInv
<1>8. CASE Tick
  <2>1. at' = at /\ kid' = kid /\ (at = "sweep" => spent' = spent + 1)
    BY <1>8 DEF Tick
  <2>2. \A k \in Stored' : keys'[k].rotates_in > 0 =>
          keys'[k].expires_in >= keys'[k].rotates_in + (KeyExpiry - KeyRotation)
    BY <1>8, <1>t, <1>c, TickRows DEF AnnounceInv, Minus1
  <2>3. at = "sweep" => keys'[kid].expires_in + spent' > DbDelay
    BY <1>8, <2>1, <1>t, <1>c, <1>s, <1>a, TickRows DEF AnnounceInv, Minus1
  <2> QED
    BY <1>8, <2>1, <2>2, <2>3, TickRows DEF AnnounceInv
<1> QED
  BY <1>0, <1>1, <1>2, <1>3, <1>4, <1>5, <1>6, <1>7, <1>8 DEF Next

\* If keys expire later than they rotate, by more than a cycle spends in the
\* database, the key that run_broadcast_loop announces is in the table and
\* active for as long as it is announced.
THEOREM AnnouncedKeyActive == Spec => []AnnouncedKeyStored
<1>1. CASE KeyRotation + DbDelay < KeyExpiry
  <2>1. Init => AnnounceInv
    BY DEF Init, AnnounceInv, Stored
  <2>2. AnnounceInv => AnnouncedKeyStored
    BY DEF AnnounceInv, AnnouncedKeyStored
  <2>3. TypeOK /\ AnnounceInv /\ [Next]_vars => AnnounceInv'
    BY <1>1, AnnounceStep
  <2> QED
    BY <2>1, <2>2, <2>3, TypeCorrect, PTL DEF Spec
<1>2. CASE ~(KeyRotation + DbDelay < KeyExpiry)
  <2>1. AnnouncedKeyStored
    BY <1>2 DEF AnnouncedKeyStored
  <2> QED
    BY <2>1, PTL
<1> QED
  BY <1>1, <1>2

\* While a cycle publishes, its token is of the current slot, or of the previous
\* one if the clock's position in the slot has wrapped since.
TokenInv ==
    at = "publish" => \/ slot_lag = 0 /\ spent <= phase
                      \/ slot_lag = 1 /\ phase < spent

\* No step ages the token further: a cycle ends before the clock wraps twice.
LEMMA TokenStep ==
    ASSUME PublishDelay <= SlotLength, TypeOK, TokenInv, [Next]_vars
    PROVE  TokenInv'
<1>c. SlotLength \in Nat \ {0} /\ PublishDelay \in Nat /\ DbDelay \in Nat
  BY DelayAssumption DEF SlotLength
<1>t. spent \in Nat /\ phase \in 0..(SlotLength - 1)
  BY <1>c DEF TypeOK, Bound
<1>6. CASE SweepExpired \/ SweepFails
  BY <1>6, <1>t, <1>c DEF SweepExpired, SweepFails, Announce, FreshToken, TokenInv
<1>8. CASE Tick
  <2>1. CASE at = "publish"
    <3>1. spent < PublishDelay /\ spent' = spent + 1
      BY <1>8, <2>1 DEF Tick, Bound, InDb
    <3>2. phase' = IF phase + 1 = SlotLength THEN 0 ELSE phase + 1
      BY <1>8, <1>t, NextPhase DEF Tick
    <3>3. slot_lag' = IF phase' = 0 THEN slot_lag + 1 ELSE slot_lag
      BY <1>8, <2>1 DEF Tick
    <3> QED
      BY <2>1, <3>1, <3>2, <3>3, <1>t, <1>c DEF TokenInv
  <2>2. CASE at # "publish"
    BY <1>8, <2>2 DEF Tick, TokenInv
  <2> QED
    BY <2>1, <2>2
<1> QED
  BY <1>6, <1>8
  DEF Next, vars, SelectFound, SelectNone, Retire, RetireFails, Insert, InsertFails,
      SkipCycle, EndCycle, Crash, TokenInv

\* A token is at most one slot old while it is published, if publishing takes no
\* longer than a slot (generate_token, once per cycle of run_broadcast_loop).
THEOREM TokenFresh == Spec => []TokenSlotAccepted
<1>1. CASE PublishDelay <= SlotLength
  <2>1. Init => TokenInv
    BY DEF Init, TokenInv
  <2>2. TokenInv => TokenSlotAccepted
    BY DEF TokenInv, TokenSlotAccepted
  <2>3. TypeOK /\ TokenInv /\ [Next]_vars => TokenInv'
    BY <1>1, TokenStep
  <2> QED
    BY <2>1, <2>2, <2>3, TypeCorrect, PTL DEF Spec
<1>2. CASE ~(PublishDelay <= SlotLength)
  <2>1. TokenSlotAccepted
    BY <1>2 DEF TokenSlotAccepted
  <2> QED
    BY <2>1, PTL
<1> QED
  BY <1>1, <1>2
=============================================================================
