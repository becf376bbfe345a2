---- MODULE LifecycleProofs ----
(***************************************************************************)
(* Lifecycle, for every number of processes, runs, supersteps and settings:*)
(* threads touch only what is there, runs leave nothing behind, a process  *)
(* that finds another one in bsp_end is right to say so, and checkpoints   *)
(* are made at rest and in time.                                           *)
(***************************************************************************)
EXTENDS LifecycleInvariant, WellFoundedInduction, FiniteSetTheorems, SequenceTheorems, TLAPS

(* The types of the parts. *)
LEMMA ViewFields ==
  ASSUME NEW v \in Views
  PROVE  /\ v.at \in Stages /\ v.A \in Nat /\ v.M \in Nat /\ v.E \in Nat /\ v.y \in Nat
         /\ v.man \in BOOLEAN
  BY DEF Views

(* The types of a base's parts. *)
LEMMA BaseFields ==
  ASSUME NEW b \in Bases
  PROVE  b.A \in Nat /\ b.M \in Nat /\ b.E \in Nat /\ b.y \in Nat /\ b.man \in BOOLEAN
  BY DEF Bases

(* Who has announced itself at the second barrier has left the first. *)
LEMMA MidIsPast ==
  ASSUME NEW v \in Views, NEW b \in Bases, NEW h, NEW ended, NEW manuals,
         Somewhere(v, b, h, ended, manuals), v.M = b.M + 1
  PROVE  Past(v, b)
<1>1. /\ b.A \in Nat /\ b.M \in Nat /\ b.E \in Nat /\ b.y \in Nat
      /\ v.A \in Nat /\ v.M \in Nat /\ v.E \in Nat /\ v.y \in Nat
  BY ViewFields, BaseFields
<1> QED
  BY <1>1 DEF Somewhere, Starting, Based, Syncing, Checking, Ending, Early, Counts, Past, Behind

(* What one step of process s, from V to W, leaves known of the types. *)
MoveFields(V, W, s, S, b) ==
  /\ s \in S /\ \A q \in S : V[q] \in Views /\ W[q] \in Views
  /\ \A q \in S : q # s => W[q] = V[q]
  /\ b.A \in Nat /\ b.M \in Nat /\ b.E \in Nat /\ b.y \in Nat /\ b.man \in BOOLEAN
  /\ \A q \in S : V[q].A \in Nat /\ V[q].M \in Nat /\ V[q].E \in Nat /\ V[q].y \in Nat
  /\ \A q \in S : W[q].A \in Nat /\ W[q].M \in Nat /\ W[q].E \in Nat /\ W[q].y \in Nat
  /\ V[s].A \in Nat /\ V[s].M \in Nat /\ V[s].E \in Nat /\ V[s].y \in Nat
  /\ W[s].A \in Nat /\ W[s].M \in Nat /\ W[s].E \in Nat /\ W[s].y \in Nat

(* The views and the base have their types, and the other processes stay. *)
LEMMA MoveFacts ==
  ASSUME NEW S, NEW V, NEW W, NEW s, Moves(V, W, s, S), NEW b \in Bases
  PROVE  MoveFields(V, W, s, S, b)
  BY ViewFields, BaseFields DEF Moves, MoveFields

(* A process that has not begun comes closer to it. *)
LEMMA StartingMove ==
  ASSUME NEW S, NEW V, NEW W, NEW s, Moves(V, W, s, S),
         NEW b \in Bases, NEW h \in BOOLEAN, NEW ended \in BOOLEAN, NEW due \in BOOLEAN, NEW manuals,
         Account(V, S, b, h, ended, due, manuals),
         V[s].at \in Early, NEW to \in Early, Step(V[s], W[s], to, 0, 0, 0)
  PROVE  Account(W, S, b, h, ended, due, manuals)
<1>0. MoveFields(V, W, s, S, b)
  BY MoveFacts
<1> USE DEF MoveFields
<1>1. Starting(V[s], b, h) /\ V[s].at # "begin"
  BY <1>0 DEF Account, Somewhere, Starting, Based, Syncing, Checking, Ending, Early, Counts
<1>2. W[s].A = V[s].A /\ W[s].M = V[s].M /\ W[s].E = V[s].E /\ W[s].y = V[s].y /\ W[s].man = V[s].man /\ W[s].at = to
  BY <1>0 DEF Step, Arriving
<1>3. Somewhere(W[s], b, h, ended, manuals)
  BY <1>1, <1>2 DEF Somewhere, Starting, Counts, Early
<1>4. ~ Past(W[s], b)
  BY <1>0, <1>1, <1>2 DEF Past, Behind, Early
<1>5. ~ (W[s].M = b.M + 1)
  BY <1>0, <1>1, <1>2 DEF Starting
<1>6. V[s].at \notin Left \cup {"to_leaving"} /\ W[s].at \notin Left
  BY <1>0, <1>1, <1>2 DEF Left, Early
<1>7. ~ Ending(V[s], b)
  BY <1>0, <1>1, <1>2 DEF Starting, Early, Ending
<1> USE <1>0, <1>1, <1>2, <1>3, <1>4, <1>5, <1>6, <1>7
<1>8. \A q \in S : Somewhere(W[q], b, h, ended, manuals)
  BY DEF Account, Somewhere
<1>9. StartGate(W, S, h)
  BY DEF Account, StartGate, Early
<1>10. FirstGate(W, S, b)
  BY DEF Account, FirstGate
<1>11. MidGate(W, S, b)
  BY DEF Account, MidGate
<1>12. DueGate(W, S, b)
  BY DEF Account, DueGate
<1>13. EndGate(W, S)
  BY DEF Account, EndGate, Left
<1>14. LastGate(W, S, b)
  BY DEF Account, LastGate
<1>15. DueAgreed(W, S, b, due)
  BY DEF Account, DueAgreed
<1>16. EndedAgreed(W, S, b, ended)
  BY DEF Account, EndedAgreed
<1> QED BY <1>8, <1>9, <1>10, <1>11, <1>12, <1>13, <1>14, <1>15, <1>16 DEF Account

(* It waits for the others in bsp_begin. *)
LEMMA AnnounceMove ==
  ASSUME NEW S, NEW V, NEW W, NEW s, Moves(V, W, s, S),
         NEW b \in Bases, NEW h \in BOOLEAN, NEW ended \in BOOLEAN, NEW due \in BOOLEAN, NEW manuals,
         Account(V, S, b, h, ended, due, manuals),
         h, V[s].at \in Early, Step(V[s], W[s], "begin", 1, 0, 0)
  PROVE  Account(W, S, b, h, ended, due, manuals)
<1>0. MoveFields(V, W, s, S, b)
  BY MoveFacts
<1> USE DEF MoveFields
<1>1. Starting(V[s], b, h) /\ V[s].at # "begin"
  BY <1>0 DEF Account, Somewhere, Starting, Based, Syncing, Checking, Ending, Early, Counts
<1>2. Starting(W[s], b, h) /\ W[s].at = "begin"
  BY <1>0, <1>1 DEF Step, Arriving, Starting, Early
<1>3. ~ Past(W[s], b)
  BY <1>0, <1>1, <1>2 DEF Past, Behind, Early
<1>4. W[s].A = b.A /\ V[s].M = b.M /\ W[s].M = b.M /\ V[s].E = b.E /\ W[s].E = b.E /\ V[s].A = 0
  BY <1>0, <1>1, <1>2 DEF Starting
<1>5. V[s].at \notin Left \cup {"to_leaving"} /\ W[s].at \notin Left
  BY <1>0, <1>1, <1>2 DEF Left, Early
<1>6. ~ Ending(V[s], b)
  BY <1>0, <1>1, <1>2 DEF Starting, Early, Ending
<1> USE <1>0, <1>1, <1>2, <1>3, <1>4, <1>5, <1>6
<1>7. \A q \in S : Somewhere(W[q], b, h, ended, manuals)
  BY DEF Account, Somewhere
<1>8. StartGate(W, S, h)
  BY DEF Account, StartGate, Early
<1>9. FirstGate(W, S, b)
  BY DEF Account, FirstGate
<1>10. MidGate(W, S, b)
  BY DEF Account, MidGate
<1>11. DueGate(W, S, b)
  BY DEF Account, DueGate
<1>12. EndGate(W, S)
  BY DEF Account, EndGate, Left
<1>13. LastGate(W, S, b)
  BY DEF Account, LastGate
<1>14. DueAgreed(W, S, b, due)
  BY DEF Account, DueAgreed
<1>15. EndedAgreed(W, S, b, ended)
  BY DEF Account, EndedAgreed
<1> QED BY <1>7, <1>8, <1>9, <1>10, <1>11, <1>12, <1>13, <1>14, <1>15 DEF Account

(* Or begins at once. *)
LEMMA BeginMove ==
  ASSUME NEW S, NEW V, NEW W, NEW s, Moves(V, W, s, S),
         NEW b \in Bases, NEW h \in BOOLEAN, NEW ended \in BOOLEAN, NEW due \in BOOLEAN, NEW manuals,
         Account(V, S, b, h, ended, due, manuals),
         ~ h, V[s].at \in Early, Step(V[s], W[s], "user", 0, 0, 0)
  PROVE  Account(W, S, b, h, ended, due, manuals)
<1>0. MoveFields(V, W, s, S, b)
  BY MoveFacts
<1> USE DEF MoveFields
<1>1. Starting(V[s], b, h) /\ V[s].at # "begin"
  BY <1>0 DEF Account, Somewhere, Starting, Based, Syncing, Checking, Ending, Early, Counts
<1>2. W[s].A = V[s].A /\ W[s].M = V[s].M /\ W[s].E = V[s].E /\ W[s].y = V[s].y /\ W[s].man = V[s].man /\ W[s].at = "user"
  BY <1>0 DEF Step, Arriving
<1>3. V[s].man \in BOOLEAN /\ V[s].man = b.man
  BY <1>0, <1>1, ViewFields DEF Starting
<1>4. Based(W[s], b)
  BY <1>0, <1>1, <1>2, <1>3 DEF Starting, Early, Based, Counts
<1>5. ~ Past(W[s], b)
  BY <1>0, <1>1, <1>2 DEF Past, Behind, Early
<1>6. V[s].A = b.A /\ W[s].A = b.A /\ V[s].M = b.M /\ W[s].M = b.M /\ V[s].E = b.E /\ W[s].E = b.E
  BY <1>0, <1>1, <1>2 DEF Starting
<1>7. V[s].at \notin Left \cup {"to_leaving"} /\ W[s].at \notin Left
  BY <1>0, <1>1, <1>2 DEF Left, Early
<1>8. ~ Ending(V[s], b)
  BY <1>0, <1>1, <1>2 DEF Starting, Early, Ending
<1> USE <1>0, <1>1, <1>2, <1>3, <1>4, <1>5, <1>6, <1>7, <1>8
<1>9. \A q \in S : Somewhere(W[q], b, h, ended, manuals)
  BY DEF Account, Somewhere
<1>10. StartGate(W, S, h)
  BY DEF Account, StartGate, Early
<1>11. FirstGate(W, S, b)
  BY DEF Account, FirstGate
<1>12. MidGate(W, S, b)
  BY DEF Account, MidGate
<1>13. DueGate(W, S, b)
  BY DEF Account, DueGate
<1>14. EndGate(W, S)
  BY DEF Account, EndGate, Left
<1>15. LastGate(W, S, b)
  BY DEF Account, LastGate
<1>16. DueAgreed(W, S, b, due)
  BY DEF Account, DueAgreed
<1>17. EndedAgreed(W, S, b, ended)
  BY DEF Account, EndedAgreed
<1> QED BY <1>9, <1>10, <1>11, <1>12, <1>13, <1>14, <1>15, <1>16, <1>17 DEF Account

(* The barrier of bsp_begin lets it go. *)
LEMMA OpenBeginMove ==
  ASSUME NEW S, NEW V, NEW W, NEW s, Moves(V, W, s, S),
         NEW b \in Bases, NEW h \in BOOLEAN, NEW ended \in BOOLEAN, NEW due \in BOOLEAN, NEW manuals,
         Account(V, S, b, h, ended, due, manuals),
         V[s].at = "begin", \A q \in S : V[q].A >= V[s].A, Step(V[s], W[s], "user", 0, 0, 0)
  PROVE  Account(W, S, b, h, ended, due, manuals)
<1>0. MoveFields(V, W, s, S, b)
  BY MoveFacts
<1> USE DEF MoveFields
<1>1. Starting(V[s], b, h) /\ h
  BY <1>0 DEF Account, Somewhere, Starting, Based, Syncing, Checking, Ending, Early, Counts
<1>2. W[s].A = V[s].A /\ W[s].M = V[s].M /\ W[s].E = V[s].E /\ W[s].y = V[s].y /\ W[s].man = V[s].man /\ W[s].at = "user"
  BY <1>0 DEF Step, Arriving
<1>3. V[s].man \in BOOLEAN /\ V[s].man = b.man
  BY <1>0, <1>1, ViewFields DEF Starting
<1>4. Based(W[s], b)
  BY <1>0, <1>1, <1>2, <1>3 DEF Starting, Early, Based, Counts
<1>5. ~ Past(W[s], b)
  BY <1>0, <1>1, <1>2 DEF Past, Behind, Early
<1>6. V[s].A = 1 /\ V[s].A = b.A /\ W[s].A = b.A /\ V[s].M = b.M /\ W[s].M = b.M /\ V[s].E = b.E /\ W[s].E = b.E
  BY <1>0, <1>1, <1>2 DEF Starting
<1>7. V[s].at \notin Left \cup {"to_leaving"} /\ W[s].at \notin Left
  BY <1>0, <1>1, <1>2 DEF Left, Early
<1>8. ~ Ending(V[s], b)
  BY <1>0, <1>1, <1>2 DEF Starting, Early, Ending
<1>9. \A q \in S : V[q].at \notin Early
  BY <1>0, <1>1, <1>6 DEF Account, Somewhere, Starting, Based, Syncing, Checking, Ending, Early
<1> USE <1>0, <1>1, <1>2, <1>3, <1>4, <1>5, <1>6, <1>7, <1>8, <1>9
<1>10. \A q \in S : Somewhere(W[q], b, h, ended, manuals)
  BY DEF Account, Somewhere
<1>11. StartGate(W, S, h)
  BY DEF Account, StartGate, Early
<1>12. FirstGate(W, S, b)
  BY DEF Account, FirstGate
<1>13. MidGate(W, S, b)
  BY DEF Account, MidGate
<1>14. DueGate(W, S, b)
  BY DEF Account, DueGate
<1>15. EndGate(W, S)
  BY DEF Account, EndGate, Left
<1>16. LastGate(W, S, b)
  BY DEF Account, LastGate
<1>17. DueAgreed(W, S, b, due)
  BY DEF Account, DueAgreed
<1>18. EndedAgreed(W, S, b, ended)
  BY DEF Account, EndedAgreed
<1> QED BY <1>10, <1>11, <1>12, <1>13, <1>14, <1>15, <1>16, <1>17, <1>18 DEF Account

(* It is let go behind the last barrier, begins a nested run or ends it. *)
LEMMA IdleMove ==
  ASSUME NEW S, NEW V, NEW W, NEW s, Moves(V, W, s, S),
         NEW b \in Bases, NEW h \in BOOLEAN, NEW ended \in BOOLEAN, NEW due \in BOOLEAN, NEW manuals,
         Account(V, S, b, h, ended, due, manuals),
         V[s].at \in {"to_user", "user", "away"}, V[s].at = "to_user" => \A q \in S : V[q].E >= V[s].E,
         NEW to \in {"user", "away"}, Step(V[s], W[s], to, 0, 0, 0)
  PROVE  Account(W, S, b, h, ended, due, manuals)
<1>0. MoveFields(V, W, s, S, b)
  BY MoveFacts
<1> USE DEF MoveFields
<1>1. Based(V[s], b)
  BY <1>0 DEF Account, Somewhere, Starting, Based, Syncing, Checking, Ending, Early, Counts, LastGate
<1>2. W[s].A = V[s].A /\ W[s].M = V[s].M /\ W[s].E = V[s].E /\ W[s].y = V[s].y /\ W[s].man = V[s].man /\ W[s].at = to
  BY <1>0 DEF Step, Arriving
<1>3. Based(W[s], b)
  BY <1>0, <1>1, <1>2 DEF Based, Counts
<1>4. ~ Past(W[s], b)
  BY <1>0, <1>2 DEF Past, Behind, Early
<1>5. V[s].A = b.A /\ W[s].A = b.A /\ V[s].M = b.M /\ W[s].M = b.M /\ V[s].E = b.E /\ W[s].E = b.E
  BY <1>0, <1>1, <1>2 DEF Based, Counts
<1>6. V[s].at \notin Left \cup {"to_leaving"} /\ W[s].at \notin Left
  BY <1>0, <1>1, <1>2 DEF Left, Early
<1>7. ~ Ending(V[s], b)
  BY <1>0, <1>1, <1>2 DEF Ending
<1> USE <1>0, <1>1, <1>2, <1>3, <1>4, <1>5, <1>6, <1>7
<1>8. \A q \in S : Somewhere(W[q], b, h, ended, manuals)
  BY DEF Account, Somewhere
<1>9. StartGate(W, S, h)
  BY DEF Account, StartGate, Early
<1>10. FirstGate(W, S, b)
  BY DEF Account, FirstGate
<1>11. MidGate(W, S, b)
  BY DEF Account, MidGate
<1>12. DueGate(W, S, b)
  BY DEF Account, DueGate
<1>13. EndGate(W, S)
  BY DEF Account, EndGate, Left
<1>14. LastGate(W, S, b)
  BY DEF Account, LastGate
<1>15. DueAgreed(W, S, b, due)
  BY DEF Account, DueAgreed
<1>16. EndedAgreed(W, S, b, ended)
  BY DEF Account, EndedAgreed
<1> QED BY <1>8, <1>9, <1>10, <1>11, <1>12, <1>13, <1>14, <1>15, <1>16 DEF Account

(* bsp_sync is called. *)
LEMMA SyncMove ==
  ASSUME NEW S, NEW V, NEW W, NEW s, Moves(V, W, s, S),
         NEW b \in Bases, NEW h \in BOOLEAN, NEW ended \in BOOLEAN, NEW due \in BOOLEAN, NEW manuals,
         Account(V, S, b, h, ended, due, manuals),
         NEW due2 \in BOOLEAN, V[s].at = "user", ~ Wants(V[s], manuals),
         Arriving(V[s], W[s], "to_synced", 1, 0, 0), W[s].y = V[s].y + 1, ~ W[s].man
  PROVE  Account(W, S, b, h, ended, due2, manuals)
<1>0. MoveFields(V, W, s, S, b)
  BY MoveFacts
<1> USE DEF MoveFields
<1>1. Based(V[s], b)
  BY <1>0 DEF Account, Somewhere, Starting, Based, Syncing, Checking, Ending, Early, Counts
<1>2. ~ Wants(b, manuals)
  BY <1>1, Zenon DEF Based, Wants
<1>3. Syncing(W[s], b, ended) /\ W[s].at = "to_synced"
  BY <1>0, <1>1 DEF Arriving, Based, Syncing, Counts
<1>4. ~ Past(W[s], b) /\ W[s].at \notin Left
  BY <1>0, <1>3 DEF Past, Behind, Left
<1>5. V[s].A = b.A /\ V[s].M = b.M /\ W[s].M = b.M /\ V[s].E = b.E /\ W[s].E = b.E
  BY <1>0, <1>1 DEF Based, Arriving, Counts
<1>6. ~ Ending(V[s], b)
  BY <1>0, <1>1 DEF Based, Ending
<1>7. \A q \in S : ~ (V[q].M = b.M + 1)
  BY <1>0, <1>5, MidIsPast DEF Account, FirstGate
<1> USE <1>0, <1>1, <1>2, <1>3, <1>4, <1>5, <1>6, <1>7
<1>8. \A q \in S : Somewhere(W[q], b, h, ended, manuals)
  BY DEF Account, Somewhere
<1>9. StartGate(W, S, h)
  BY DEF Account, StartGate, Early
<1>10. FirstGate(W, S, b)
  BY DEF Account, FirstGate
<1>11. MidGate(W, S, b)
  BY DEF Account, MidGate
<1>12. DueGate(W, S, b)
  BY DEF Account, DueGate
<1>13. EndGate(W, S)
  BY DEF Account, EndGate, Left
<1>14. LastGate(W, S, b)
  BY DEF Account, LastGate
<1>15. DueAgreed(W, S, b, due2)
  BY DEF Account, DueAgreed
<1>16. EndedAgreed(W, S, b, ended)
  BY DEF Account, EndedAgreed
<1> QED BY <1>8, <1>9, <1>10, <1>11, <1>12, <1>13, <1>14, <1>15, <1>16 DEF Account

(* The first barrier of bsp_sync lets it go. *)
LEMMA SyncedMove ==
  ASSUME NEW S, NEW V, NEW W, NEW s, Moves(V, W, s, S),
         NEW b \in Bases, NEW h \in BOOLEAN, NEW ended \in BOOLEAN, NEW due \in BOOLEAN, NEW manuals,
         Account(V, S, b, h, ended, due, manuals),
         V[s].at = "to_synced", \A q \in S : V[q].A >= V[s].A, Step(V[s], W[s], "synced", 0, 0, 0)
  PROVE  Account(W, S, b, h, ended, due, manuals)
<1>0. MoveFields(V, W, s, S, b)
  BY MoveFacts
<1> USE DEF MoveFields
<1>1. Syncing(V[s], b, ended) /\ ~ Wants(b, manuals)
  BY <1>0 DEF Account, Somewhere, Starting, Based, Syncing, Checking, Ending, Early, Counts
<1>2. W[s].A = V[s].A /\ W[s].M = V[s].M /\ W[s].E = V[s].E /\ W[s].y = V[s].y /\ W[s].man = V[s].man /\ W[s].at = "synced"
  BY <1>0 DEF Step, Arriving
<1>3. Syncing(W[s], b, ended)
  BY <1>0, <1>1, <1>2 DEF Syncing, Counts
<1>4. V[s].A = b.A + 1 /\ V[s].M = b.M /\ W[s].M = b.M /\ V[s].E = b.E /\ W[s].E = b.E
  BY <1>0, <1>1, <1>2 DEF Syncing, Counts
<1>5. V[s].at \notin Left \cup {"to_leaving"} /\ W[s].at \notin Left
  BY <1>0, <1>1, <1>2 DEF Left, Early
<1>6. ~ Ending(V[s], b)
  BY <1>0, <1>1, <1>2 DEF Ending
<1> USE <1>0, <1>1, <1>2, <1>3, <1>4, <1>5, <1>6
<1>7. \A q \in S : Somewhere(W[q], b, h, ended, manuals)
  BY DEF Account, Somewhere
<1>8. StartGate(W, S, h)
  BY DEF Account, StartGate, Early
<1>9. FirstGate(W, S, b)
  BY DEF Account, FirstGate
<1>10. MidGate(W, S, b)
  BY DEF Account, MidGate
<1>11. DueGate(W, S, b)
  BY DEF Account, DueGate
<1>12. EndGate(W, S)
  BY DEF Account, EndGate, Left
<1>13. LastGate(W, S, b)
  BY DEF Account, LastGate
<1>14. DueAgreed(W, S, b, due)
  BY DEF Account, DueAgreed
<1>15. EndedAgreed(W, S, b, ended)
  BY DEF Account, EndedAgreed
<1> QED BY <1>7, <1>8, <1>9, <1>10, <1>11, <1>12, <1>13, <1>14, <1>15 DEF Account

(* It reads the requests and goes on to the second. *)
LEMMA ExchangeMove ==
  ASSUME NEW S, NEW V, NEW W, NEW s, Moves(V, W, s, S),
         NEW b \in Bases, NEW h \in BOOLEAN, NEW ended \in BOOLEAN, NEW due \in BOOLEAN, NEW manuals,
         Account(V, S, b, h, ended, due, manuals),
         V[s].at = "synced", ~ ended, Step(V[s], W[s], "to_delivering", 0, 1, 0)
  PROVE  Account(W, S, b, h, ended, due, manuals)
<1>0. MoveFields(V, W, s, S, b)
  BY MoveFacts
<1> USE DEF MoveFields
<1>1. Syncing(V[s], b, ended) /\ ~ Wants(b, manuals)
  BY <1>0 DEF Account, Somewhere, Starting, Based, Syncing, Checking, Ending, Early, Counts
<1>2. V[s].A = b.A + 1 /\ V[s].M = b.M /\ V[s].E = b.E /\ W[s].at = "to_delivering"
  BY <1>0, <1>1 DEF Syncing, Counts, Step, Arriving
<1>3. W[s].A = b.A + 1 /\ W[s].M = b.M + 1 /\ W[s].E = b.E
  BY <1>0, <1>1, <1>2 DEF Step, Arriving
<1>4. Syncing(W[s], b, ended)
  BY <1>0, <1>1, <1>2, <1>3 DEF Syncing, Counts, Step
<1>5. V[s].at \notin Left \cup {"to_leaving"} /\ W[s].at \notin Left
  BY <1>0, <1>1, <1>2 DEF Left, Early
<1>6. ~ Ending(V[s], b)
  BY <1>0, <1>1, <1>2 DEF Ending
<1>7. Past(V[s], b) /\ Past(W[s], b)
  BY <1>0, <1>1, <1>2 DEF Past, Behind
<1> USE <1>0, <1>1, <1>2, <1>3, <1>4, <1>5, <1>6, <1>7
<1>8. \A q \in S : Somewhere(W[q], b, h, ended, manuals)
  BY DEF Account, Somewhere
<1>9. StartGate(W, S, h)
  BY DEF Account, StartGate, Early
<1>10. FirstGate(W, S, b)
  BY DEF Account, FirstGate
<1>11. MidGate(W, S, b)
  BY DEF Account, MidGate
<1>12. DueGate(W, S, b)
  BY DEF Account, DueGate
<1>13. EndGate(W, S)
  BY DEF Account, EndGate, Left
<1>14. LastGate(W, S, b)
  BY DEF Account, LastGate
<1>15. DueAgreed(W, S, b, due)
  BY DEF Account, DueAgreed
<1>16. EndedAgreed(W, S, b, ended)
  BY DEF Account, EndedAgreed
<1> QED BY <1>8, <1>9, <1>10, <1>11, <1>12, <1>13, <1>14, <1>15, <1>16 DEF Account

(* Which lets it go. *)
LEMMA DeliveringMove ==
  ASSUME NEW S, NEW V, NEW W, NEW s, Moves(V, W, s, S),
         NEW b \in Bases, NEW h \in BOOLEAN, NEW ended \in BOOLEAN, NEW due \in BOOLEAN, NEW manuals,
         Account(V, S, b, h, ended, due, manuals),
         V[s].at = "to_delivering", \A q \in S : V[q].M >= V[s].M, Step(V[s], W[s], "delivering", 0, 0, 0)
  PROVE  Account(W, S, b, h, ended, due, manuals)
<1>0. MoveFields(V, W, s, S, b)
  BY MoveFacts
<1> USE DEF MoveFields
<1>1. Syncing(V[s], b, ended) /\ ~ Wants(b, manuals)
  BY <1>0 DEF Account, Somewhere, Starting, Based, Syncing, Checking, Ending, Early, Counts
<1>2. W[s].A = V[s].A /\ W[s].M = V[s].M /\ W[s].E = V[s].E /\ W[s].y = V[s].y /\ W[s].man = V[s].man /\ W[s].at = "delivering"
  BY <1>0 DEF Step, Arriving
<1>3. Syncing(W[s], b, ended)
  BY <1>0, <1>1, <1>2 DEF Syncing, Counts
<1>4. V[s].A = b.A + 1 /\ V[s].M = b.M + 1 /\ V[s].E = b.E
  BY <1>0, <1>1, <1>2 DEF Syncing, Counts
<1>5. V[s].at \notin Left \cup {"to_leaving"} /\ W[s].at \notin Left
  BY <1>0, <1>1, <1>2 DEF Left, Early
<1>6. ~ Ending(V[s], b)
  BY <1>0, <1>1, <1>2 DEF Ending
<1>7. Past(V[s], b) /\ Past(W[s], b)
  BY <1>0, <1>1, <1>2 DEF Past, Behind
<1>8. \A q \in S : V[q].M = b.M + 1
  BY <1>0, <1>4 DEF Account, Somewhere, Starting, Based, Syncing, Checking, Ending, Early, Counts
<1> USE <1>0, <1>1, <1>2, <1>3, <1>4, <1>5, <1>6, <1>7, <1>8
<1>9. \A q \in S : Somewhere(W[q], b, h, ended, manuals)
  BY DEF Account, Somewhere
<1>10. StartGate(W, S, h)
  BY DEF Account, StartGate, Early
<1>11. FirstGate(W, S, b)
  BY DEF Account, FirstGate
<1>12. MidGate(W, S, b)
  BY DEF Account, MidGate
<1>13. DueGate(W, S, b)
  BY DEF Account, DueGate
<1>14. EndGate(W, S)
  BY DEF Account, EndGate, Left
<1>15. LastGate(W, S, b)
  BY DEF Account, LastGate
<1>16. DueAgreed(W, S, b, due)
  BY DEF Account, DueAgreed
<1>17. EndedAgreed(W, S, b, ended)
  BY DEF Account, EndedAgreed
<1> QED BY <1>9, <1>10, <1>11, <1>12, <1>13, <1>14, <1>15, <1>16, <1>17 DEF Account

(* A checkpoint is due. *)
LEMMA DueMove ==
  ASSUME NEW S, NEW V, NEW W, NEW s, Moves(V, W, s, S),
         NEW b \in Bases, NEW h \in BOOLEAN, NEW ended \in BOOLEAN, NEW due \in BOOLEAN, NEW manuals,
         Account(V, S, b, h, ended, due, manuals),
         V[s].at = "delivering", due, Step(V[s], W[s], "to_due", 1, 0, 0)
  PROVE  Account(W, S, b, h, ended, due, manuals)
<1>0. MoveFields(V, W, s, S, b)
  BY MoveFacts
<1> USE DEF MoveFields
<1>1. Syncing(V[s], b, ended) /\ ~ Wants(b, manuals)
  BY <1>0 DEF Account, Somewhere, Starting, Based, Syncing, Checking, Ending, Early, Counts
<1>2. V[s].A = b.A + 1 /\ V[s].M = b.M + 1 /\ V[s].E = b.E /\ W[s].at = "to_due"
  BY <1>0, <1>1 DEF Syncing, Counts, Step, Arriving
<1>3. W[s].A = b.A + 2 /\ W[s].M = b.M + 1 /\ W[s].E = b.E
  BY <1>0, <1>1, <1>2 DEF Step, Arriving
<1>4. Syncing(W[s], b, ended)
  BY <1>0, <1>1, <1>2, <1>3 DEF Syncing, Counts, Step
<1>5. V[s].at \notin Left \cup {"to_leaving"} /\ W[s].at \notin Left
  BY <1>0, <1>1, <1>2 DEF Left, Early
<1>6. ~ Ending(V[s], b)
  BY <1>0, <1>1, <1>2 DEF Ending
<1>7. Past(V[s], b) /\ Past(W[s], b)
  BY <1>0, <1>1, <1>2 DEF Past, Behind
<1>8. \A q \in S : V[q].M = b.M + 1
  BY <1>0, <1>1, <1>2 DEF Account, MidGate
<1> USE <1>0, <1>1, <1>2, <1>3, <1>4, <1>5, <1>6, <1>7, <1>8
<1>9. \A q \in S : Somewhere(W[q], b, h, ended, manuals)
  BY DEF Account, Somewhere
<1>10. StartGate(W, S, h)
  BY DEF Account, StartGate, Early
<1>11. FirstGate(W, S, b)
  BY DEF Account, FirstGate
<1>12. MidGate(W, S, b)
  BY DEF Account, MidGate
<1>13. DueGate(W, S, b)
  BY DEF Account, DueGate
<1>14. EndGate(W, S)
  BY DEF Account, EndGate, Left
<1>15. LastGate(W, S, b)
  BY DEF Account, LastGate
<1>16. DueAgreed(W, S, b, due)
  BY DEF Account, DueAgreed
<1>17. EndedAgreed(W, S, b, ended)
  BY DEF Account, EndedAgreed
<1> QED BY <1>9, <1>10, <1>11, <1>12, <1>13, <1>14, <1>15, <1>16, <1>17 DEF Account

(* All are ready for it. *)
LEMMA AwaitDueMove ==
  ASSUME NEW S, NEW V, NEW W, NEW s, Moves(V, W, s, S),
         NEW b \in Bases, NEW h \in BOOLEAN, NEW ended \in BOOLEAN, NEW due \in BOOLEAN, NEW manuals,
         Account(V, S, b, h, ended, due, manuals),
         V[s].at = "to_due", \A q \in S : V[q].A >= V[s].A, Step(V[s], W[s], "due", 0, 0, 0)
  PROVE  Account(W, S, b, h, ended, due, manuals)
<1>0. MoveFields(V, W, s, S, b)
  BY MoveFacts
<1> USE DEF MoveFields
<1>1. Syncing(V[s], b, ended) /\ ~ Wants(b, manuals)
  BY <1>0 DEF Account, Somewhere, Starting, Based, Syncing, Checking, Ending, Early, Counts
<1>2. W[s].A = V[s].A /\ W[s].M = V[s].M /\ W[s].E = V[s].E /\ W[s].y = V[s].y /\ W[s].man = V[s].man /\ W[s].at = "due"
  BY <1>0 DEF Step, Arriving
<1>3. Syncing(W[s], b, ended)
  BY <1>0, <1>1, <1>2 DEF Syncing, Counts
<1>4. V[s].A = b.A + 2 /\ V[s].M = b.M + 1 /\ V[s].E = b.E
  BY <1>0, <1>1, <1>2 DEF Syncing, Counts
<1>5. V[s].at \notin Left \cup {"to_leaving"} /\ W[s].at \notin Left
  BY <1>0, <1>1, <1>2 DEF Left, Early
<1>6. ~ Ending(V[s], b)
  BY <1>0, <1>1, <1>2 DEF Ending
<1>7. Past(V[s], b) /\ Past(W[s], b)
  BY <1>0, <1>1, <1>2 DEF Past, Behind
<1>8. \A q \in S : V[q].A = b.A + 2 \/ V[q].A <= b.A + 1
  BY <1>0, <1>4 DEF Account, Somewhere, Starting, Based, Syncing, Checking, Ending, Early, Counts
<1>9. \A q \in S : V[q].A = b.A + 2
  BY <1>0, <1>4, <1>8
<1> USE <1>0, <1>1, <1>2, <1>3, <1>4, <1>5, <1>6, <1>7, <1>8, <1>9
<1>10. \A q \in S : Somewhere(W[q], b, h, ended, manuals)
  BY DEF Account, Somewhere
<1>11. StartGate(W, S, h)
  BY DEF Account, StartGate, Early
<1>12. FirstGate(W, S, b)
  BY DEF Account, FirstGate
<1>13. MidGate(W, S, b)
  BY DEF Account, MidGate
<1>14. DueGate(W, S, b)
  BY DEF Account, DueGate
<1>15. EndGate(W, S)
  BY DEF Account, EndGate, Left
<1>16. LastGate(W, S, b)
  BY DEF Account, LastGate
<1>17. DueAgreed(W, S, b, due)
  BY DEF Account, DueAgreed
<1>18. EndedAgreed(W, S, b, ended)
  BY DEF Account, EndedAgreed
<1> QED BY <1>10, <1>11, <1>12, <1>13, <1>14, <1>15, <1>16, <1>17, <1>18 DEF Account

(* Process 0 starts an automatic checkpoint. *)
LEMMA StartDueMove ==
  ASSUME NEW S, NEW V, NEW W, NEW s, Moves(V, W, s, S),
         NEW b \in Bases, NEW h \in BOOLEAN, NEW ended \in BOOLEAN, NEW due \in BOOLEAN, NEW manuals,
         Account(V, S, b, h, ended, due, manuals),
         NEW due2 \in BOOLEAN, V[s].at = "due", Step(V[s], W[s], "checkpointing", 0, 0, 0)
  PROVE  Account(W, S, b, h, ended, due2, manuals)
<1>0. MoveFields(V, W, s, S, b)
  BY MoveFacts
<1> USE DEF MoveFields
<1>1. Syncing(V[s], b, ended) /\ ~ Wants(b, manuals)
  BY <1>0 DEF Account, Somewhere, Starting, Based, Syncing, Checking, Ending, Early, Counts
<1>2. W[s].A = V[s].A /\ W[s].M = V[s].M /\ W[s].E = V[s].E /\ W[s].y = V[s].y /\ W[s].man = V[s].man /\ W[s].at = "checkpointing"
  BY <1>0 DEF Step, Arriving
<1>3. Syncing(W[s], b, ended)
  BY <1>0, <1>1, <1>2 DEF Syncing, Counts
<1>4. V[s].A = b.A + 2 /\ V[s].M = b.M + 1 /\ V[s].E = b.E
  BY <1>0, <1>1, <1>2 DEF Syncing, Counts
<1>5. V[s].at \notin Left \cup {"to_leaving"} /\ W[s].at \notin Left
  BY <1>0, <1>1, <1>2 DEF Left, Early
<1>6. ~ Ending(V[s], b)
  BY <1>0, <1>1, <1>2 DEF Ending
<1>7. Past(V[s], b) /\ Past(W[s], b)
  BY <1>0, <1>1, <1>2 DEF Past, Behind
<1>8. \A q \in S : V[q].A = b.A + 2
  BY <1>0, <1>1, <1>4 DEF Account, DueGate
<1> USE <1>0, <1>1, <1>2, <1>3, <1>4, <1>5, <1>6, <1>7, <1>8
<1>9. \A q \in S : Somewhere(W[q], b, h, ended, manuals)
  BY DEF Account, Somewhere
<1>10. StartGate(W, S, h)
  BY DEF Account, StartGate, Early
<1>11. FirstGate(W, S, b)
  BY DEF Account, FirstGate
<1>12. MidGate(W, S, b)
  BY DEF Account, MidGate
<1>13. DueGate(W, S, b)
  BY DEF Account, DueGate
<1>14. EndGate(W, S)
  BY DEF Account, EndGate, Left
<1>15. LastGate(W, S, b)
  BY DEF Account, LastGate
<1>16. DueAgreed(W, S, b, due2)
  BY DEF Account, DueAgreed
<1>17. EndedAgreed(W, S, b, ended)
  BY DEF Account, EndedAgreed
<1> QED BY <1>9, <1>10, <1>11, <1>12, <1>13, <1>14, <1>15, <1>16, <1>17 DEF Account

(* mcbsp_checkpoint is called. *)
LEMMA ManualMove ==
  ASSUME NEW S, NEW V, NEW W, NEW s, Moves(V, W, s, S),
         NEW b \in Bases, NEW h \in BOOLEAN, NEW ended \in BOOLEAN, NEW due \in BOOLEAN, NEW manuals,
         Account(V, S, b, h, ended, due, manuals),
         V[s].at = "user", V[s].y \in manuals, ~ V[s].man,
         Arriving(V[s], W[s], "to_manual", 1, 0, 0), W[s].y = V[s].y, W[s].man
  PROVE  Account(W, S, b, h, ended, due, manuals)
<1>0. MoveFields(V, W, s, S, b)
  BY MoveFacts
<1> USE DEF MoveFields
<1>1. Based(V[s], b)
  BY <1>0 DEF Account, Somewhere, Starting, Based, Syncing, Checking, Ending, Early, Counts
<1>2. Wants(b, manuals)
  BY <1>1, Zenon DEF Based, Wants
<1>3. Checking(W[s], b) /\ W[s].at = "to_manual"
  BY <1>0, <1>1 DEF Arriving, Based, Checking, Counts
<1>4. ~ Past(W[s], b) /\ W[s].at \notin Left
  BY <1>0, <1>3 DEF Past, Behind, Left
<1>5. V[s].A = b.A /\ V[s].M = b.M /\ W[s].M = b.M /\ V[s].E = b.E /\ W[s].E = b.E
  BY <1>0, <1>1 DEF Based, Arriving, Counts
<1>6. ~ Ending(V[s], b)
  BY <1>0, <1>1 DEF Based, Ending
<1> USE <1>0, <1>1, <1>2, <1>3, <1>4, <1>5, <1>6
<1>7. \A q \in S : Somewhere(W[q], b, h, ended, manuals)
  BY DEF Account, Somewhere
<1>8. StartGate(W, S, h)
  BY DEF Account, StartGate, Early
<1>9. FirstGate(W, S, b)
  BY DEF Account, FirstGate
<1>10. MidGate(W, S, b)
  BY DEF Account, MidGate
<1>11. DueGate(W, S, b)
  BY DEF Account, DueGate
<1>12. EndGate(W, S)
  BY DEF Account, EndGate, Left
<1>13. LastGate(W, S, b)
  BY DEF Account, LastGate
<1>14. DueAgreed(W, S, b, due)
  BY DEF Account, DueAgreed
<1>15. EndedAgreed(W, S, b, ended)
  BY DEF Account, EndedAgreed
<1> QED BY <1>7, <1>8, <1>9, <1>10, <1>11, <1>12, <1>13, <1>14, <1>15 DEF Account

(* All are ready for it. *)
LEMMA AwaitManualMove ==
  ASSUME NEW S, NEW V, NEW W, NEW s, Moves(V, W, s, S),
         NEW b \in Bases, NEW h \in BOOLEAN, NEW ended \in BOOLEAN, NEW due \in BOOLEAN, NEW manuals,
         Account(V, S, b, h, ended, due, manuals),
         V[s].at = "to_manual", \A q \in S : V[q].A >= V[s].A, Step(V[s], W[s], "manual", 0, 0, 0)
  PROVE  Account(W, S, b, h, ended, due, manuals)
<1>0. MoveFields(V, W, s, S, b)
  BY MoveFacts
<1> USE DEF MoveFields
<1>1. Checking(V[s], b) /\ Wants(b, manuals)
  BY <1>0 DEF Account, Somewhere, Starting, Based, Syncing, Checking, Ending, Early, Counts
<1>2. W[s].A = V[s].A /\ W[s].M = V[s].M /\ W[s].E = V[s].E /\ W[s].y = V[s].y /\ W[s].man = V[s].man /\ W[s].at = "manual"
  BY <1>0 DEF Step, Arriving
<1>3. Checking(W[s], b)
  BY <1>0, <1>1, <1>2 DEF Checking, Counts
<1>4. V[s].A = b.A + 1 /\ V[s].M = b.M /\ V[s].E = b.E
  BY <1>0, <1>1, <1>2 DEF Checking, Counts
<1>5. V[s].at \notin Left \cup {"to_leaving"} /\ W[s].at \notin Left
  BY <1>0, <1>1, <1>2 DEF Left, Early
<1>6. ~ Ending(V[s], b)
  BY <1>0, <1>1, <1>2 DEF Ending
<1>7. Past(W[s], b)
  BY <1>0, <1>1, <1>2 DEF Past, Behind
<1> USE <1>0, <1>1, <1>2, <1>3, <1>4, <1>5, <1>6, <1>7
<1>8. \A q \in S : Somewhere(W[q], b, h, ended, manuals)
  BY DEF Account, Somewhere
<1>9. StartGate(W, S, h)
  BY DEF Account, StartGate, Early
<1>10. FirstGate(W, S, b)
  BY DEF Account, FirstGate
<1>11. MidGate(W, S, b)
  BY DEF Account, MidGate
<1>12. DueGate(W, S, b)
  BY DEF Account, DueGate
<1>13. EndGate(W, S)
  BY DEF Account, EndGate, Left
<1>14. LastGate(W, S, b)
  BY DEF Account, LastGate
<1>15. DueAgreed(W, S, b, due)
  BY DEF Account, DueAgreed
<1>16. EndedAgreed(W, S, b, ended)
  BY DEF Account, EndedAgreed
<1> QED BY <1>8, <1>9, <1>10, <1>11, <1>12, <1>13, <1>14, <1>15, <1>16 DEF Account

(* Process 0 starts a checkpoint the program asked for. *)
LEMMA StartManualMove ==
  ASSUME NEW S, NEW V, NEW W, NEW s, Moves(V, W, s, S),
         NEW b \in Bases, NEW h \in BOOLEAN, NEW ended \in BOOLEAN, NEW due \in BOOLEAN, NEW manuals,
         Account(V, S, b, h, ended, due, manuals),
         V[s].at = "manual", Step(V[s], W[s], "checkpointing", 0, 0, 0)
  PROVE  Account(W, S, b, h, ended, due, manuals)
<1>0. MoveFields(V, W, s, S, b)
  BY MoveFacts
<1> USE DEF MoveFields
<1>1. Checking(V[s], b) /\ Wants(b, manuals)
  BY <1>0 DEF Account, Somewhere, Starting, Based, Syncing, Checking, Ending, Early, Counts
<1>2. W[s].A = V[s].A /\ W[s].M = V[s].M /\ W[s].E = V[s].E /\ W[s].y = V[s].y /\ W[s].man = V[s].man /\ W[s].at = "checkpointing"
  BY <1>0 DEF Step, Arriving
<1>3. Checking(W[s], b)
  BY <1>0, <1>1, <1>2 DEF Checking, Counts
<1>4. V[s].A = b.A + 1 /\ V[s].M = b.M /\ V[s].E = b.E
  BY <1>0, <1>1, <1>2 DEF Checking, Counts
<1>5. V[s].at \notin Left \cup {"to_leaving"} /\ W[s].at \notin Left
  BY <1>0, <1>1, <1>2 DEF Left, Early
<1>6. ~ Ending(V[s], b)
  BY <1>0, <1>1, <1>2 DEF Ending
<1>7. Past(V[s], b) /\ Past(W[s], b)
  BY <1>0, <1>1, <1>2 DEF Past, Behind
<1> USE <1>0, <1>1, <1>2, <1>3, <1>4, <1>5, <1>6, <1>7
<1>8. \A q \in S : Somewhere(W[q], b, h, ended, manuals)
  BY DEF Account, Somewhere
<1>9. StartGate(W, S, h)
  BY DEF Account, StartGate, Early
<1>10. FirstGate(W, S, b)
  BY DEF Account, FirstGate
<1>11. MidGate(W, S, b)
  BY DEF Account, MidGate
<1>12. DueGate(W, S, b)
  BY DEF Account, DueGate
<1>13. EndGate(W, S)
  BY DEF Account, EndGate, Left
<1>14. LastGate(W, S, b)
  BY DEF Account, LastGate
<1>15. DueAgreed(W, S, b, due)
  BY DEF Account, DueAgreed
<1>16. EndedAgreed(W, S, b, ended)
  BY DEF Account, EndedAgreed
<1> QED BY <1>8, <1>9, <1>10, <1>11, <1>12, <1>13, <1>14, <1>15, <1>16 DEF Account

(* bsp_end is called. *)
LEMMA EndMove ==
  ASSUME NEW S, NEW V, NEW W, NEW s, Moves(V, W, s, S),
         NEW b \in Bases, NEW h \in BOOLEAN, NEW ended \in BOOLEAN, NEW due \in BOOLEAN, NEW manuals,
         Account(V, S, b, h, ended, due, manuals),
         V[s].at = "user", ~ Wants(V[s], manuals),
         Step(V[s], W[s], "to_ended", 1, 0, 0), NEW e \in BOOLEAN, e
  PROVE  Account(W, S, b, h, e, due, manuals)
<1>0. MoveFields(V, W, s, S, b)
  BY MoveFacts
<1> USE DEF MoveFields
<1>1. Based(V[s], b)
  BY <1>0 DEF Account, Somewhere, Starting, Based, Syncing, Checking, Ending, Early, Counts
<1>2. ~ Wants(b, manuals)
  BY <1>1, Zenon DEF Based, Wants
<1>3. Ending(W[s], b) /\ W[s].at = "to_ended"
  BY <1>0, <1>1 DEF Step, Arriving, Based, Ending, Counts
<1>4. ~ Past(W[s], b) /\ W[s].at \notin Left
  BY <1>0, <1>3 DEF Past, Behind, Left
<1>5. V[s].A = b.A /\ V[s].M = b.M /\ W[s].M = b.M /\ V[s].E = b.E /\ W[s].E = b.E
  BY <1>0, <1>1 DEF Based, Step, Arriving, Counts
<1>6. \A q \in S : ~ Past(V[q], b)
  BY <1>0, <1>5 DEF Account, FirstGate
<1>7. \A q \in S : Somewhere(V[q], b, h, e, manuals)
  BY <1>0, <1>6 DEF Account, Past, Behind, Somewhere, Syncing, Counts
<1> USE <1>0, <1>1, <1>2, <1>3, <1>4, <1>5, <1>6, <1>7
<1>8. \A q \in S : Somewhere(W[q], b, h, e, manuals)
  BY DEF Account, Somewhere
<1>9. StartGate(W, S, h)
  BY DEF Account, StartGate, Early
<1>10. FirstGate(W, S, b)
  BY DEF Account, FirstGate
<1>11. MidGate(W, S, b)
  BY DEF Account, MidGate
<1>12. DueGate(W, S, b)
  BY DEF Account, DueGate
<1>13. EndGate(W, S)
  BY DEF Account, EndGate, Left
<1>14. LastGate(W, S, b)
  BY DEF Account, LastGate
<1>15. DueAgreed(W, S, b, due)
  BY DEF Account, DueAgreed
<1>16. EndedAgreed(W, S, b, e)
  BY DEF Account, EndedAgreed
<1> QED BY <1>8, <1>9, <1>10, <1>11, <1>12, <1>13, <1>14, <1>15, <1>16 DEF Account

(* The first barrier of bsp_end lets it go. *)
LEMMA EndedMove ==
  ASSUME NEW S, NEW V, NEW W, NEW s, Moves(V, W, s, S),
         NEW b \in Bases, NEW h \in BOOLEAN, NEW ended \in BOOLEAN, NEW due \in BOOLEAN, NEW manuals,
         Account(V, S, b, h, ended, due, manuals),
         V[s].at = "to_ended", \A q \in S : V[q].A >= V[s].A, Step(V[s], W[s], "ended", 0, 0, 0)
  PROVE  Account(W, S, b, h, ended, due, manuals)
<1>0. MoveFields(V, W, s, S, b)
  BY MoveFacts
<1> USE DEF MoveFields
<1>1. Ending(V[s], b) /\ ~ Wants(b, manuals) /\ ended
  BY <1>0 DEF Account, Somewhere, Starting, Based, Syncing, Checking, Ending, Early, Counts
<1>2. W[s].A = V[s].A /\ W[s].M = V[s].M /\ W[s].E = V[s].E /\ W[s].y = V[s].y /\ W[s].man = V[s].man /\ W[s].at = "ended"
  BY <1>0 DEF Step, Arriving
<1>3. Ending(W[s], b)
  BY <1>0, <1>1, <1>2 DEF Ending, Counts
<1>4. V[s].A = b.A + 1 /\ V[s].M = b.M /\ V[s].E = b.E
  BY <1>0, <1>1, <1>2 DEF Ending, Counts
<1>5. V[s].at \notin Left \cup {"to_leaving"} /\ W[s].at \notin Left
  BY <1>0, <1>1, <1>2 DEF Left, Early
<1>6. Past(W[s], b)
  BY <1>0, <1>1, <1>2 DEF Past, Behind
<1> USE <1>0, <1>1, <1>2, <1>3, <1>4, <1>5, <1>6
<1>7. \A q \in S : Somewhere(W[q], b, h, ended, manuals)
  BY DEF Account, Somewhere
<1>8. StartGate(W, S, h)
  BY DEF Account, StartGate, Early
<1>9. FirstGate(W, S, b)
  BY DEF Account, FirstGate
<1>10. MidGate(W, S, b)
  BY DEF Account, MidGate
<1>11. DueGate(W, S, b)
  BY DEF Account, DueGate
<1>12. EndGate(W, S)
  BY DEF Account, EndGate, Left
<1>13. LastGate(W, S, b)
  BY DEF Account, LastGate
<1>14. DueAgreed(W, S, b, due)
  BY DEF Account, DueAgreed
<1>15. EndedAgreed(W, S, b, ended)
  BY DEF Account, EndedAgreed
<1> QED BY <1>7, <1>8, <1>9, <1>10, <1>11, <1>12, <1>13, <1>14, <1>15 DEF Account

(* It goes on to the second. *)
LEMMA ProfileMove ==
  ASSUME NEW S, NEW V, NEW W, NEW s, Moves(V, W, s, S),
         NEW b \in Bases, NEW h \in BOOLEAN, NEW ended \in BOOLEAN, NEW due \in BOOLEAN, NEW manuals,
         Account(V, S, b, h, ended, due, manuals),
         V[s].at = "ended", Step(V[s], W[s], "to_leaving", 1, 0, 0)
  PROVE  Account(W, S, b, h, ended, due, manuals)
<1>0. MoveFields(V, W, s, S, b)
  BY MoveFacts
<1> USE DEF MoveFields
<1>1. Ending(V[s], b) /\ ~ Wants(b, manuals) /\ ended
  BY <1>0 DEF Account, Somewhere, Starting, Based, Syncing, Checking, Ending, Early, Counts
<1>2. V[s].A = b.A + 1 /\ V[s].M = b.M /\ V[s].E = b.E
  BY <1>0, <1>1 DEF Ending, Counts
<1>3. Ending(W[s], b)
  BY <1>0, <1>1 DEF Ending, Counts, Step, Arriving
<1>4. W[s].A = b.A + 2 /\ W[s].M = b.M /\ W[s].E = b.E
  BY <1>0, <1>1, <1>2 DEF Step, Arriving
<1>5. W[s].at = "to_leaving"
  BY <1>0 DEF Step, Arriving
<1>6. V[s].at \notin Left \cup {"to_leaving"}
  BY <1>0, <1>1, <1>2 DEF Left, Early
<1>7. Past(V[s], b) /\ Past(W[s], b)
  BY <1>0, <1>1, <1>5 DEF Past, Behind
<1> USE <1>0, <1>1, <1>2, <1>3, <1>4, <1>5, <1>6, <1>7
<1>8. \A q \in S : Somewhere(W[q], b, h, ended, manuals)
  BY DEF Account, Somewhere
<1>9. StartGate(W, S, h)
  BY DEF Account, StartGate, Early
<1>10. FirstGate(W, S, b)
  BY DEF Account, FirstGate
<1>11. MidGate(W, S, b)
  BY DEF Account, MidGate
<1>12. DueGate(W, S, b)
  BY DEF Account, DueGate
<1>13. EndGate(W, S)
  BY DEF Account, EndGate, Left
<1>14. LastGate(W, S, b)
  BY DEF Account, LastGate
<1>15. DueAgreed(W, S, b, due)
  BY DEF Account, DueAgreed
<1>16. EndedAgreed(W, S, b, ended)
  BY DEF Account, EndedAgreed
<1> QED BY <1>8, <1>9, <1>10, <1>11, <1>12, <1>13, <1>14, <1>15, <1>16 DEF Account

(* Which lets it go. *)
LEMMA LeaveMove ==
  ASSUME NEW S, NEW V, NEW W, NEW s, Moves(V, W, s, S),
         NEW b \in Bases, NEW h \in BOOLEAN, NEW ended \in BOOLEAN, NEW due \in BOOLEAN, NEW manuals,
         Account(V, S, b, h, ended, due, manuals),
         V[s].at = "to_leaving", \A q \in S : V[q].A >= V[s].A, Step(V[s], W[s], "leaving", 0, 0, 0)
  PROVE  Account(W, S, b, h, ended, due, manuals)
<1>0. MoveFields(V, W, s, S, b)
  BY MoveFacts
<1> USE DEF MoveFields
<1>1. Ending(V[s], b) /\ ~ Wants(b, manuals) /\ ended
  BY <1>0 DEF Account, Somewhere, Starting, Based, Syncing, Checking, Ending, Early, Counts
<1>2. W[s].A = V[s].A /\ W[s].M = V[s].M /\ W[s].E = V[s].E /\ W[s].y = V[s].y /\ W[s].man = V[s].man /\ W[s].at = "leaving"
  BY <1>0 DEF Step, Arriving
<1>3. Ending(W[s], b)
  BY <1>0, <1>1, <1>2 DEF Ending, Counts
<1>4. V[s].A = b.A + 2 /\ V[s].M = b.M /\ V[s].E = b.E
  BY <1>0, <1>1, <1>2 DEF Ending, Counts
<1>5. Past(V[s], b) /\ Past(W[s], b)
  BY <1>0, <1>1, <1>2 DEF Past, Behind
<1>6. \A q \in S : V[q].A >= b.A + 2
  BY <1>0, <1>4
<1>7. \A q \in S : V[q].at \in Left \cup {"to_leaving"}
  BY <1>0, <1>1, <1>6 DEF Account, Left, Somewhere, Starting, Based, Syncing, Checking, Ending, Early, Counts
<1> USE <1>0, <1>1, <1>2, <1>3, <1>4, <1>5, <1>6, <1>7
<1>8. \A q \in S : Somewhere(W[q], b, h, ended, manuals)
  BY DEF Account, Somewhere
<1>9. StartGate(W, S, h)
  BY DEF Account, StartGate, Early
<1>10. FirstGate(W, S, b)
  BY DEF Account, FirstGate
<1>11. MidGate(W, S, b)
  BY DEF Account, MidGate
<1>12. DueGate(W, S, b)
  BY DEF Account, DueGate
<1>13. EndGate(W, S)
  BY DEF Account, EndGate, Left
<1>14. LastGate(W, S, b)
  BY DEF Account, LastGate
<1>15. DueAgreed(W, S, b, due)
  BY DEF Account, DueAgreed
<1>16. EndedAgreed(W, S, b, ended)
  BY DEF Account, EndedAgreed
<1> QED BY <1>8, <1>9, <1>10, <1>11, <1>12, <1>13, <1>14, <1>15, <1>16 DEF Account

(* It has freed its data. *)
LEMMA DestroyMove ==
  ASSUME NEW S, NEW V, NEW W, NEW s, Moves(V, W, s, S),
         NEW b \in Bases, NEW h \in BOOLEAN, NEW ended \in BOOLEAN, NEW due \in BOOLEAN, NEW manuals,
         Account(V, S, b, h, ended, due, manuals),
         V[s].at = "leaving", NEW to \in {"joining", "exited"}, Step(V[s], W[s], to, 0, 0, 0)
  PROVE  Account(W, S, b, h, ended, due, manuals)
<1>0. MoveFields(V, W, s, S, b)
  BY MoveFacts
<1> USE DEF MoveFields
<1>1. Ending(V[s], b) /\ ~ Wants(b, manuals) /\ ended
  BY <1>0 DEF Account, Somewhere, Starting, Based, Syncing, Checking, Ending, Early, Counts
<1>2. W[s].A = V[s].A /\ W[s].M = V[s].M /\ W[s].E = V[s].E /\ W[s].y = V[s].y /\ W[s].man = V[s].man /\ W[s].at = to
  BY <1>0 DEF Step, Arriving
<1>3. Ending(W[s], b)
  BY <1>0, <1>1, <1>2 DEF Ending, Counts
<1>4. V[s].A = b.A + 2 /\ V[s].M = b.M /\ V[s].E = b.E
  BY <1>0, <1>1, <1>2 DEF Ending, Counts
<1>5. Past(V[s], b) /\ Past(W[s], b)
  BY <1>0, <1>1, <1>2 DEF Past, Behind
<1>6. V[s].at \in Left /\ W[s].at \in Left
  BY <1>0, <1>2 DEF Left
<1> USE <1>0, <1>1, <1>2, <1>3, <1>4, <1>5, <1>6
<1>7. \A q \in S : Somewhere(W[q], b, h, ended, manuals)
  BY DEF Account, Somewhere
<1>8. StartGate(W, S, h)
  BY DEF Account, StartGate, Early
<1>9. FirstGate(W, S, b)
  BY DEF Account, FirstGate
<1>10. MidGate(W, S, b)
  BY DEF Account, MidGate
<1>11. DueGate(W, S, b)
  BY DEF Account, DueGate
<1>12. EndGate(W, S)
  BY DEF Account, EndGate, Left
<1>13. LastGate(W, S, b)
  BY DEF Account, LastGate
<1>14. DueAgreed(W, S, b, due)
  BY DEF Account, DueAgreed
<1>15. EndedAgreed(W, S, b, ended)
  BY DEF Account, EndedAgreed
<1> QED BY <1>7, <1>8, <1>9, <1>10, <1>11, <1>12, <1>13, <1>14, <1>15 DEF Account

(* The last barrier of bsp_sync or mcbsp_checkpoint: the last process to
   arrive there makes a new base. *)
LEMMA LastMove ==
  ASSUME NEW S, NEW V, NEW W, NEW s, Moves(V, W, s, S),
         NEW b \in Bases, NEW h \in BOOLEAN, NEW ended \in BOOLEAN, NEW due \in BOOLEAN, NEW manuals,
         Account(V, S, b, h, ended, due, manuals),
         V[s].at \in {"delivering", "due", "manual", "checkpointing"},
         V[s].at = "delivering" => ~ due,
         Step(V[s], W[s], "to_user", 0, 0, 1)
  PROVE  \E b2 \in Bases : Account(W, S, b2, h, ended, due, manuals)
<1>0. MoveFields(V, W, s, S, b)
  BY MoveFacts
<1> USE DEF MoveFields
<1>1. /\ \/ ~ Wants(b, manuals) /\ Syncing(V[s], b, ended) /\ V[s].M = b.M + 1
         \/ Wants(b, manuals) /\ Checking(V[s], b) /\ V[s].M = b.M /\ V[s].A = b.A + 1
      /\ V[s].E = b.E
  BY <1>0 DEF Account, Somewhere, Starting, Based, Syncing, Checking, Ending, Early, Counts
<1>2. W[s].A = V[s].A /\ W[s].M = V[s].M /\ W[s].E = b.E + 1 /\ W[s].y = V[s].y /\ W[s].man = V[s].man /\ W[s].at = "to_user"
  BY <1>0, <1>1 DEF Step, Arriving
<1>3. /\ \/ ~ Wants(b, manuals) /\ Syncing(W[s], b, ended)
         \/ Wants(b, manuals) /\ Checking(W[s], b)
      /\ V[s].A = b.A + 1 \/ V[s].A = b.A + 2
      /\ V[s].at = "delivering" => V[s].M = b.M + 1 /\ V[s].A = b.A + 1
      /\ V[s].M = b.M + 1 /\ V[s].A = b.A + 1 => V[s].at = "delivering"
  BY <1>0, <1>1, <1>2 DEF Syncing, Checking, Counts
<1>4. Past(V[s], b) /\ Past(W[s], b)
  BY <1>2 DEF Past, Behind
<1>5. \A q \in S : V[q].A >= b.A + 1
  BY <1>0, <1>4 DEF Account, FirstGate
<1>6. V[s].at \notin Left \cup {"to_leaving"} /\ W[s].at \notin Left /\ ~ Ending(V[s], b) /\ W[s].at \notin Early
  BY <1>1, <1>2 DEF Left, Ending, Early
<1>7. V[s].M = b.M + 1 => \A q \in S : V[q].M = b.M + 1
  BY <1>0, <1>1 DEF Account, MidGate
<1>8. V[s].M = b.M + 1 /\ V[s].A = b.A + 2 => \A q \in S : V[q].A = b.A + 2
  BY <1>0, <1>1 DEF Account, DueGate
<1>9. \A q \in S : V[q].at \in Early \cup {"begin", "user", "away"} => V[q].E = b.E
  BY <1>0 DEF Account, Somewhere, Starting, Based, Syncing, Checking, Ending, Early, Counts
<1>10. CASE \E q \in S : q # s /\ V[q].E = b.E
  <2>1. \A q \in S : Somewhere(W[q], b, h, ended, manuals)
    BY <1>0, <1>3 DEF Account, Somewhere
  <2>2. StartGate(W, S, h)
    BY <1>0, <1>2, <1>6 DEF Account, StartGate, Early
  <2>3. FirstGate(W, S, b)
    BY <1>0, <1>2, <1>5 DEF Account, FirstGate
  <2>4. MidGate(W, S, b)
    BY <1>0, <1>2, <1>7 DEF Account, MidGate
  <2>5. DueGate(W, S, b)
    BY <1>0, <1>2, <1>8 DEF Account, DueGate
  <2>6. EndGate(W, S)
    BY <1>0, <1>2, <1>6 DEF Account, EndGate, Left
  <2>7. LastGate(W, S, b)
    BY <1>0, <1>10 DEF LastGate
  <2>8. DueAgreed(W, S, b, due)
    BY <1>0, <1>2, <1>3, <1>8 DEF Account, DueAgreed
  <2>9. EndedAgreed(W, S, b, ended)
    BY <1>0, <1>2, <1>6 DEF Account, EndedAgreed
  <2> QED BY <2>1, <2>2, <2>3, <2>4, <2>5, <2>6, <2>7, <2>8, <2>9 DEF Account
<1>11. CASE \A q \in S : q # s => V[q].E # b.E
  <2>1. ~ ended
    BY <1>0, <1>6, <1>11 DEF Account, EndedAgreed, Ending, Counts
  <2>2. \A q \in S : q # s => V[q].at = "to_user" /\ V[q].E = b.E + 1
    BY <1>0, <1>11, <2>1 DEF Account, Somewhere, Starting, Based, Syncing, Checking, Ending, Early, Counts
  <2>3. \A q \in S : W[q].at = "to_user" /\ W[q].E = W[s].E
    BY <1>0, <1>2, <2>2
  <2>4. ASSUME ~ Wants(b, manuals)
        PROVE  \A q \in S : V[q].A = V[s].A /\ V[q].M = V[s].M /\ V[q].y = V[s].y /\ ~ V[q].man
    <3>0. Syncing(V[s], b, ended) /\ V[s].M = b.M + 1
      BY <2>4, <1>1
    <3>1. \A q \in S : Syncing(V[q], b, ended)
      BY <1>0, <1>1, <2>2, <2>4 DEF Account, Somewhere, Starting, Based, Early, Counts, Ending
    <3>2. \A q \in S : V[q].A = V[s].A
      <4>1. CASE V[s].A = b.A + 2
        BY <4>1, <3>0, <1>8
      <4>2. CASE V[s].A = b.A + 1
        <5>1. ~ due
          BY <1>3, <4>2, <3>0
        <5>2. \A q \in S : V[q].A = b.A + 1 \/ V[q].A = b.A + 2
          BY <3>1, <1>0 DEF Syncing, Counts
        <5>3. \A q \in S : ~ (V[q].A = b.A + 2)
          BY <1>0, <1>7, <3>0, <4>2, <5>1 DEF Account, DueAgreed
        <5> QED BY <5>2, <5>3, <4>2
      <4> QED BY <4>1, <4>2, <1>3
    <3>3. \A q \in S : V[q].y = b.y + 1 /\ ~ V[q].man
      BY <3>1 DEF Syncing
    <3> QED BY <1>0, <3>0, <3>2, <3>3, <1>7
  <2>5. ASSUME Wants(b, manuals)
        PROVE  \A q \in S : V[q].A = V[s].A /\ V[q].M = V[s].M /\ V[q].y = V[s].y /\ V[q].man
    <3>1. \A q \in S : Checking(V[q], b)
      BY <1>0, <1>1, <2>2, <2>5 DEF Account, Somewhere, Starting, Based, Early, Counts, Ending
    <3> QED BY <3>1, <1>0, <1>1, <2>5, <2>2 DEF Checking, Counts
  <2>6. \A q \in S : /\ W[q].A = W[s].A /\ W[q].M = W[s].M /\ W[q].y = W[s].y
                     /\ W[q].man <=> W[s].man
    BY <2>4, <2>5, <1>0, <1>2
  <2>7. \A q \in S : W[q].man = W[s].man
    BY <2>6, <1>0, ViewFields
  <2>8. PICK c \in Bases : c.A = W[s].A /\ c.M = W[s].M /\ c.E = W[s].E /\ c.y = W[s].y /\ c.man = W[s].man
    <3> DEFINE d == [A |-> W[s].A, M |-> W[s].M, E |-> W[s].E, y |-> W[s].y, man |-> W[s].man]
    <3>1. d \in Bases
      BY <1>0, ViewFields DEF Bases
    <3> QED BY <3>1
  <2>9. c.A \in Nat /\ c.M \in Nat /\ c.E \in Nat /\ c.y \in Nat
    BY BaseFields
  <2>10. \A q \in S : Based(W[q], c)
    BY <1>0, <2>3, <2>6, <2>7, <2>8, <2>9 DEF Based, Counts
  <2>11. \A q \in S : W[q].at = "to_user" /\ W[q].E = c.E /\ W[q].M = c.M
    BY <2>3, <2>6, <2>8
  <2>12. \A q \in S : ~ Past(W[q], c) /\ W[q].at \notin Left /\ W[q].at \notin Early /\ W[q].M # c.M + 1
    BY <2>9, <2>11 DEF Past, Behind, Left, Early
  <2>13. Account(W, S, c, h, ended, due, manuals)
    BY <1>0, <2>1, <2>10, <2>11, <2>12
       DEF Account, Somewhere, StartGate, FirstGate, MidGate, DueGate, EndGate, LastGate, DueAgreed, EndedAgreed
  <2> QED BY <2>13
<1> QED BY <1>10, <1>11

(* A process in user code changes the settings. *)
LEMMA SettingMove ==
  ASSUME NEW S, NEW V \in [S -> Views], NEW s \in S,
         NEW b \in Bases, NEW h \in BOOLEAN, NEW ended \in BOOLEAN, NEW due \in BOOLEAN, NEW manuals,
         Account(V, S, b, h, ended, due, manuals), V[s].at = "user", NEW due2 \in BOOLEAN
  PROVE  Account(V, S, b, h, ended, due2, manuals)
<1>0. /\ \A q \in S : V[q] \in Views
      /\ b.A \in Nat /\ b.M \in Nat /\ b.E \in Nat /\ b.y \in Nat /\ b.man \in BOOLEAN
      /\ \A q \in S : V[q].A \in Nat /\ V[q].M \in Nat /\ V[q].E \in Nat /\ V[q].y \in Nat
      /\ V[s].A \in Nat
  BY ViewFields, BaseFields
<1>1. Based(V[s], b)
  BY <1>0 DEF Account, Somewhere, Starting, Based, Syncing, Checking, Ending, Early, Counts
<1>2. V[s].A = b.A
  BY <1>0, <1>1 DEF Based, Counts
<1>3. \A q \in S : ~ (V[q].M = b.M + 1)
  BY <1>0, <1>2, MidIsPast DEF Account, FirstGate
<1> QED BY <1>3 DEF Account, DueAgreed

(* A run that begins. *)
LEMMA FirstAccount ==
  ASSUME NEW S, NEW V \in [S -> Views], NEW s \in S, NEW h \in BOOLEAN, NEW due, NEW manuals,
         \A q \in S : V[q].at = "unborn" /\ V[q].A = 0 /\ V[q].M = 0 /\ V[q].E = 0 /\ V[q].y = 0 /\ ~ V[q].man
  PROVE  \E b \in Bases : Account(V, S, b, h, FALSE, due, manuals)
<1> DEFINE d == [A |-> IF h THEN 1 ELSE 0, M |-> 0, E |-> 0, y |-> 0, man |-> FALSE]
<1>1. d \in Bases
  BY DEF Bases
<1>2. PICK b \in Bases : b.A = (IF h THEN 1 ELSE 0) /\ b.M = 0 /\ b.E = 0 /\ b.y = 0 /\ ~ b.man
  BY <1>1
<1>3. \A q \in S : Starting(V[q], b, h)
  BY <1>2 DEF Starting, Early
<1>4. \A q \in S : ~ Past(V[q], b) /\ V[q].at \notin Left /\ V[q].at \in Early /\ V[q].M # b.M + 1 /\ V[q].E = b.E
  BY <1>2 DEF Past, Behind, Left, Early
<1>5. Account(V, S, b, h, FALSE, due, manuals)
  BY <1>3, <1>4
     DEF Account, Somewhere, StartGate, FirstGate, MidGate, DueGate, EndGate, LastGate, DueAgreed, EndedAgreed
<1> QED BY <1>5

(* What an account says: when a process is in user code, none is behind a
   barrier. *)
LEMMA UserMeansNoneIsPast ==
  ASSUME NEW S, NEW V \in [S -> Views], NEW s \in S, V[s].at \in {"user", "away"},
         NEW b \in Bases, NEW h, NEW ended, NEW due, NEW manuals, Account(V, S, b, h, ended, due, manuals)
  PROVE  \A q \in S : V[q].at \notin Behind
<1>0. /\ b.A \in Nat /\ b.M \in Nat /\ b.E \in Nat /\ b.y \in Nat
      /\ \A q \in S : V[q].A \in Nat /\ V[q].M \in Nat /\ V[q].E \in Nat /\ V[q].y \in Nat
      /\ V[s].A \in Nat
  BY ViewFields, BaseFields
<1>1. Based(V[s], b)
  BY <1>0 DEF Account, Somewhere, Starting, Based, Syncing, Checking, Ending, Early, Counts
<1>2. V[s].A = b.A
  BY <1>0, <1>1 DEF Based, Counts
<1> QED BY <1>0, <1>2 DEF Account, FirstGate, Past

(* Behind the first barrier of bsp_sync or bsp_end all have begun and none
   has left. *)
LEMMA BehindFirstAllAreThere ==
  ASSUME NEW S, NEW V \in [S -> Views], NEW s \in S, V[s].at \in {"synced", "delivering", "ended"},
         NEW b \in Bases, NEW h, NEW ended, NEW due, NEW manuals, Account(V, S, b, h, ended, due, manuals)
  PROVE  \A q \in S : V[q].at \notin Early \cup {"joining", "exited"}
<1>0. /\ b.A \in Nat /\ b.M \in Nat /\ b.E \in Nat /\ b.y \in Nat
      /\ \A q \in S : V[q].A \in Nat /\ V[q].M \in Nat /\ V[q].E \in Nat /\ V[q].y \in Nat
      /\ V[s].A \in Nat
  BY ViewFields, BaseFields
<1>1. Past(V[s], b)
  BY DEF Past, Behind
<1>2. \A q \in S : V[q].A >= b.A + 1
  BY <1>1 DEF Account, FirstGate
<1>3. \A q \in S : V[q].at \in Early => Starting(V[q], b, h)
  BY <1>0 DEF Account, Somewhere, Starting, Based, Syncing, Checking, Ending, Early, Counts
<1>4. \A q \in S : V[q].at \notin Early
  BY <1>0, <1>2, <1>3 DEF Starting, Early
<1> QED BY <1>4 DEF Account, EndGate, Left

(* While a checkpoint is made, all are in front of or behind the barrier
   before it and in front of the one behind it. *)
LEMMA CheckpointingMeansAllWait ==
  ASSUME NEW S, NEW V \in [S -> Views], NEW s \in S, V[s].at = "checkpointing",
         NEW b \in Bases, NEW h, NEW ended, NEW due, NEW manuals, Account(V, S, b, h, ended, due, manuals)
  PROVE  /\ V[s].E = b.E
         /\ \A q \in S :
              /\ V[q].at \in {"to_due", "due", "to_manual", "manual", "checkpointing", "to_user"}
              /\ V[q].at \in {"to_due", "to_manual"} => \A p \in S : V[p].A >= V[q].A
              /\ V[q].at = "to_user" => V[q].E = b.E + 1
<1>0. /\ b.A \in Nat /\ b.M \in Nat /\ b.E \in Nat /\ b.y \in Nat
      /\ \A q \in S : V[q].A \in Nat /\ V[q].M \in Nat /\ V[q].E \in Nat /\ V[q].y \in Nat
      /\ V[s].A \in Nat /\ V[s].M \in Nat /\ V[s].E \in Nat
  BY ViewFields, BaseFields
<1>1. /\ \/ ~ Wants(b, manuals) /\ ~ ended /\ V[s].M = b.M + 1 /\ V[s].A = b.A + 2
         \/ Wants(b, manuals) /\ V[s].A = b.A + 1
      /\ V[s].E = b.E
  BY <1>0 DEF Account, Somewhere, Starting, Based, Syncing, Checking, Ending, Early, Counts
<1>2. \A q \in S : V[q].A >= b.A + 1
  BY DEF Account, FirstGate, Past, Behind
<1>3. CASE ~ Wants(b, manuals) /\ ~ ended /\ V[s].M = b.M + 1 /\ V[s].A = b.A + 2
  <2>1. \A q \in S : V[q].A = b.A + 2 /\ V[q].M = b.M + 1
    BY <1>0, <1>3 DEF Account, DueGate, MidGate
  <2>2. \A q \in S : Syncing(V[q], b, ended)
    BY <1>0, <1>3, <2>1 DEF Account, Somewhere, Starting, Based, Early, Counts
  <2> QED BY <1>0, <1>1, <2>1, <2>2 DEF Syncing, Counts
<1>4. CASE Wants(b, manuals) /\ V[s].A = b.A + 1
  <2>2. \A q \in S : Checking(V[q], b)
    BY <1>0, <1>4, <1>2 DEF Account, Somewhere, Starting, Based, Early, Counts
  <2> QED BY <1>0, <1>1, <2>2 DEF Checking, Counts
<1> QED BY <1>1, <1>3, <1>4

(* A process behind the first barrier of bsp_sync and one in bsp_end have
   not called bsp_sync equally often. *)
LEMMA MismatchSeen ==
  ASSUME NEW S, NEW V \in [S -> Views], NEW s \in S, V[s].at = "synced",
         NEW b \in Bases, NEW h, NEW due, NEW manuals, Account(V, S, b, h, TRUE, due, manuals)
  PROVE  \E q \in S : V[q].y # V[s].y
<1>0. /\ b.A \in Nat /\ b.M \in Nat /\ b.E \in Nat /\ b.y \in Nat
      /\ \A q \in S : V[q].A \in Nat /\ V[q].M \in Nat /\ V[q].E \in Nat /\ V[q].y \in Nat
      /\ V[s].A \in Nat
  BY ViewFields, BaseFields
<1>1. V[s].y = b.y + 1
  BY <1>0 DEF Account, Somewhere, Starting, Based, Syncing, Checking, Ending, Early, Counts
<1>2. \E q \in S : V[q].y = b.y
  BY DEF Account, EndedAgreed, Ending
<1> QED BY <1>0, <1>1, <1>2

(* Those that leave the run have called it equally often. *)
LEMMA LeftAgree ==
  ASSUME NEW S, NEW V \in [S -> Views], NEW s \in S, V[s].at \in Left,
         NEW b \in Bases, NEW h, NEW ended, NEW due, NEW manuals, Account(V, S, b, h, ended, due, manuals)
  PROVE  \A q \in S : V[q].y = V[s].y
<1>0. /\ b.A \in Nat /\ b.M \in Nat /\ b.E \in Nat /\ b.y \in Nat
      /\ \A q \in S : V[q].A \in Nat /\ V[q].M \in Nat /\ V[q].E \in Nat /\ V[q].y \in Nat
      /\ V[s].A \in Nat
  BY ViewFields, BaseFields
<1>1. \A q \in S : V[q].at \in Left \cup {"to_leaving"}
  BY DEF Account, EndGate
<1>2. \A q \in S : V[q].y = b.y
  BY <1>0, <1>1 DEF Account, Somewhere, Starting, Based, Syncing, Checking, Ending, Early, Counts, Left
<1> QED BY <1>2

----
(* The types of a thread's parts. *)
LEMMA ThreadFields ==
  ASSUME NEW x \in Records
  PROVE  /\ x.pc \in PCs /\ x.run \in Runs \cup {NoRun} /\ x.id \in Ids /\ x.count \in Nat
         /\ x.on \in Arrays /\ x.then \in Targets /\ x.init_data \in Runs \cup {NoRun}
         /\ x.thread_data \in Seats
  BY DEF Records

(* The types of an init struct's parts. *)
LEMMA RunFields ==
  ASSUME NEW p, NEW i \in RunOf(p)
  PROVE  /\ i.P = p /\ i.abort \in BOOLEAN /\ i.ended \in BOOLEAN /\ i.no_cp \in BOOLEAN
         /\ i.safe_cp \in BOOLEAN /\ i.cp_f \in Nat /\ i.safe_cp_f \in Nat
         /\ i.skipped_checkpoints \in Nat /\ i.threads \in [0 .. p-1 -> Threads \cup {NoThread}]
         /\ i.threadData \in SUBSET (0 .. p-1) /\ i.prev_data \in Seats
         /\ i.arrived \in [Arrays -> [0 .. p-1 -> Nat]]
  BY DEF RunOf

(* What a step may leave alone of an init struct: who is in the run, and
   what is set about checkpoints. *)
SameShape(i, j) ==
  /\ j.P = i.P /\ j.abort = i.abort /\ j.threads = i.threads /\ j.threadData = i.threadData
  /\ j.prev_data = i.prev_data

(* The settings and counts of checkpoints are the same. *)
SameData(i, j) ==
  /\ j.no_cp = i.no_cp /\ j.safe_cp = i.safe_cp /\ j.cp_f = i.cp_f /\ j.safe_cp_f = i.safe_cp_f
  /\ j.skipped_checkpoints = i.skipped_checkpoints

(* One process has arrived once more at one barrier. *)
OneArrival(i, j, s, a) ==
  /\ j.arrived[a][s] = i.arrived[a][s] + 1
  /\ \A c \in Arrays, q \in 0 .. i.P - 1 : c # a \/ q # s => j.arrived[c][q] = i.arrived[c][q]

(* Announced counts one arrival and leaves the rest alone. *)
LEMMA AnnouncedEffect ==
  ASSUME NEW p \in Nat, NEW i \in RunOf(p), NEW s \in 0 .. p-1, NEW a \in Arrays
  PROVE  /\ Announced(i, s, a) \in RunOf(p)
         /\ SameShape(i, Announced(i, s, a)) /\ SameData(i, Announced(i, s, a))
         /\ Announced(i, s, a).ended = i.ended
         /\ OneArrival(i, Announced(i, s, a), s, a)
<1>0. i.P = p /\ i.arrived \in [Arrays -> [0 .. p-1 -> Nat]]
  BY RunFields
<1>1. PICK z : z = [i.arrived[a] EXCEPT ![s] = i.arrived[a][s] + 1]
  OBVIOUS
<1>2. i.arrived[a] \in [0 .. p-1 -> Nat] /\ i.arrived[a][s] + 1 \in Nat
  BY <1>0
<1>3. /\ z \in [0 .. p-1 -> Nat] /\ z[s] = i.arrived[a][s] + 1
      /\ \A q \in 0 .. p-1 : q # s => z[q] = i.arrived[a][q]
  BY <1>1, <1>2
<1>4. PICK y : y = [i.arrived EXCEPT ![a] = z]
  OBVIOUS
<1>5. /\ y \in [Arrays -> [0 .. p-1 -> Nat]] /\ y[a] = z
      /\ \A c \in Arrays : c # a => y[c] = i.arrived[c]
  BY <1>0, <1>3, <1>4
<1>6. Announced(i, s, a) = [i EXCEPT !.arrived = y]
  BY <1>1, <1>4 DEF Announced
<1>7. /\ [i EXCEPT !.arrived = y] \in RunOf(p) /\ [i EXCEPT !.arrived = y].arrived = y
      /\ SameShape(i, [i EXCEPT !.arrived = y]) /\ SameData(i, [i EXCEPT !.arrived = y])
      /\ [i EXCEPT !.arrived = y].ended = i.ended
  BY <1>5 DEF RunOf, SameShape, SameData
<1>8. /\ y[a][s] = i.arrived[a][s] + 1
      /\ \A c \in Arrays, q \in 0 .. p-1 : c # a \/ q # s => y[c][q] = i.arrived[c][q]
  BY <1>3, <1>5
<1> QED BY <1>0, <1>6, <1>7, <1>8 DEF OneArrival

(* A waiting thread has the type of a thread. *)
LEMMA WaitingType ==
  ASSUME thread \in [Threads -> Records], NEW t \in Threads, NEW a \in Arrays, NEW to \in Targets
  PROVE  Waiting(t, a, to) \in Records /\ [thread EXCEPT ![t] = Waiting(t, a, to)] \in [Threads -> Records]
  BY ZenonT(60) DEF Waiting, Records, PCs

(* The constants have their types, processes are numbers. *)
LEMMA Constants ==
  /\ MaxP \in Nat \ {0} /\ MaxRuns \in Nat \ {0} /\ NoRun \notin Runs
  /\ \A p \in 1 .. MaxP : 0 .. p - 1 \subseteq Ids
  /\ \A s \in Ids : s \in Nat
  /\ Runs \subseteq Nat
BY BoundsAssumption DEF Runs, Ids, NoRun

(* The init struct of a run that has begun. *)
LEMMA RunType ==
  ASSUME InitType, NEW r \in Runs, Begun(r)
  PROVE  /\ init[r] \in RunOf(init[r].P) /\ init[r].P \in 1 .. MaxP /\ init[r].P \in Nat
         /\ ProcsOf(r) = 0 .. init[r].P - 1 /\ ProcsOf(r) \subseteq Ids
  BY Constants DEF InitType, ProcsOf

(* A new init struct for one run leaves the others alone. *)
LEMMA InitUpdate ==
  ASSUME InitType, NEW r \in Runs, Begun(r), NEW j \in RunOf(init[r].P),
         init' = [init EXCEPT ![r] = j]
  PROVE  InitType' /\ init'[r] = j /\ Begun(r)' /\ \A q \in Runs : q # r => init'[q] = init[q]
<1>1. init[r].P \in 1 .. MaxP /\ j.P = init[r].P
  BY RunType DEF RunOf
<1>2. init'[r] = j /\ \A q \in Runs : q # r => init'[q] = init[q]
  BY DEF InitType
<1>3. init' = [q \in Runs |-> init'[q]]
  BY DEF InitType
<1>4. \A q \in Runs : (IF Begun(q) THEN init[q] \in RunOf(init[q].P) /\ init[q].P \in 1 .. MaxP
                                 ELSE init[q] = [P |-> 0])'
  BY <1>1, <1>2 DEF InitType, Begun
<1> QED BY <1>1, <1>2, <1>3, <1>4 DEF InitType, Begun

(* Where a thread sits. *)
LEMMA SeatType ==
  ASSUME Types, NEW t \in Threads, Seated(t), thread[t].run # NoRun
  PROVE  /\ thread[t].run \in Runs /\ Begun(thread[t].run) /\ thread[t].id \in ProcsOf(thread[t].run)
         /\ init[thread[t].run] \in RunOf(init[thread[t].run].P) /\ init[thread[t].run].P \in 1 .. MaxP
         /\ thread[t].id \in 0 .. init[thread[t].run].P - 1 /\ init[thread[t].run].P \in Nat
         /\ ProcsOf(thread[t].run) = 0 .. init[thread[t].run].P - 1
<1>1. thread[t].run \in Runs /\ thread[t].id \in Ids
  BY ThreadFields DEF Types, ThreadType
<1>2. Begun(thread[t].run) /\ thread[t].id < init[thread[t].run].P
  BY DEF Seated
<1>3. /\ init[thread[t].run] \in RunOf(init[thread[t].run].P) /\ init[thread[t].run].P \in 1 .. MaxP
      /\ init[thread[t].run].P \in Nat /\ ProcsOf(thread[t].run) = 0 .. init[thread[t].run].P - 1
  BY <1>1, <1>2, RunType DEF Types
<1>4. thread[t].id \in Nat
  BY <1>1, Constants
<1>5. thread[t].id \in 0 .. init[thread[t].run].P - 1
  BY <1>2, <1>3, <1>4
<1> QED BY <1>1, <1>2, <1>3, <1>5

(* What a step leaves alone in a thread's variables: its place and keys. *)
SameKeys(x, y) ==
  y.run = x.run /\ y.id = x.id /\ y.init_data = x.init_data /\ y.thread_data = x.thread_data

----
(* A step of a thread that neither enters nor leaves a run: only its own
   variables, its arrivals and counts, and the settings of its run change. *)
Quiet(t) ==
  LET r == thread[t].run IN
  /\ thread[t].pc \in InRun /\ thread'[t].pc \in InRun /\ LocalOK(thread'[t])
  /\ SameKeys(thread[t], thread'[t])
  /\ \A u \in Threads : u # t => thread'[u] = thread[u]
  /\ \A q \in Runs : q # r =>
       /\ init'[q] = init[q] /\ history'.syncs[q] = history.syncs[q]
       /\ history'.manual[q] = history.manual[q] /\ history'.since[q] = history.since[q]
  /\ SameShape(init[r], init'[r])
  /\ \A s \in ProcsOf(r) : s # thread[t].id =>
       /\ \A a \in Arrays : init'[r].arrived[a][s] = init[r].arrived[a][s]
       /\ history'.syncs[r][s] = history.syncs[r][s] /\ history'.manual[r][s] = history.manual[r][s]
  /\ heap' = heap /\ history'.inside = history.inside /\ history'.begun = history.begun
  /\ hp' = hp

(* A quiet step does not change who is in which run. *)
LEMMA QuietShape ==
  ASSUME Types, NEW t \in Threads, Quiet(t)
  PROVE  \A q \in Runs : /\ SameShape(init[q], init'[q]) /\ (Begun(q)' <=> Begun(q))
                         /\ ProcsOf(q)' = ProcsOf(q) /\ (Live(q)' <=> Live(q))
<1>1. \A q \in Runs : SameShape(init[q], init'[q])
  BY DEF Quiet, SameShape
<1> QED BY <1>1 DEF SameShape, Begun, ProcsOf, Live, Quiet

(* A quiet step keeps threads and runs in place. *)
LEMMA QuietPlaced ==
  ASSUME Types, Types', Placed, NEW t \in Threads, Quiet(t)
  PROVE  Placed'
<1>1. \A q \in Runs : /\ init'[q].P = init[q].P /\ init'[q].threads = init[q].threads
                      /\ init'[q].prev_data = init[q].prev_data /\ init'[q].abort = init[q].abort
                      /\ (Begun(q)' <=> Begun(q)) /\ ProcsOf(q)' = ProcsOf(q)
  BY QuietShape DEF SameShape
<1>2. \A u \in Threads : Inside(u)' = Inside(u) /\ Innermost(u)' = Innermost(u)
  BY DEF Quiet, Inside, Innermost
<1>3. \A u \in Threads : u # t => thread'[u] = thread[u]
  BY DEF Quiet
<1>4. SameKeys(thread[t], thread'[t]) /\ thread[t].pc \in InRun /\ thread'[t].pc \in InRun /\ LocalOK(thread'[t])
  BY DEF Quiet
<1>5. heap' = heap /\ history'.begun = history.begun
  BY DEF Quiet
<1>6. \A u \in Threads : thread[u].run \in Runs \cup {NoRun} /\ thread[u].id \in Ids
  BY ThreadFields DEF Types, ThreadType
<1>7. \A u \in Threads : \A k \in 1 .. Len(Inside(u)) : Inside(u)[k] \in Runs \X Ids
  BY DEF Types, HistoryType, Histories, Inside
<1>8. \A u \in Threads : ThreadOK(u)'
  <2> SUFFICES ASSUME NEW u \in Threads PROVE ThreadOK(u)'
    OBVIOUS
  <2>1. ThreadOK(u)
    BY DEF Placed
  <2>2. CASE u = t
    BY <1>1, <1>2, <1>4, <1>6, <2>1, <2>2 DEF ThreadOK, SameKeys, InRun
  <2>3. CASE u # t
    BY <1>1, <1>2, <1>3, <1>6, <2>1, <2>3 DEF ThreadOK
  <2> QED BY <2>2, <2>3
<1>9. \A u \in Threads : Seated(u)'
  <2> SUFFICES ASSUME NEW u \in Threads PROVE Seated(u)'
    OBVIOUS
  <2>1. Seated(u)
    BY DEF Placed
  <2>2. CASE u = t
    BY <1>1, <1>2, <1>4, <1>6, <2>1, <2>2 DEF Seated, SameKeys, InRun
  <2>3. CASE u # t
    BY <1>1, <1>2, <1>3, <1>6, <2>1, <2>3 DEF Seated
  <2> QED BY <2>2, <2>3
<1>10. \A u \in Threads : Chain(u)'
  BY <1>1, <1>2, <1>7 DEF Placed, Chain
<1>11. \A u \in Threads : Pending(u)'
  <2> SUFFICES ASSUME NEW u \in Threads PROVE Pending(u)'
    OBVIOUS
  <2>0. \A v \in Threads : thread'[v].init_data = thread[v].init_data
    BY <1>3, <1>4 DEF SameKeys
  <2>1. Pending(u) /\ thread[u].init_data \in Runs \cup {NoRun}
    BY ThreadFields DEF Placed, Types, ThreadType
  <2>2. thread'[u].pc = thread[u].pc \/ thread[u].pc \notin {"spawning", "exited"}
    BY <1>3, <1>4 DEF InRun
  <2>3. thread'[u].pc = thread[u].pc \/ thread'[u].pc \notin {"spawning", "exited"}
    BY <1>3, <1>4 DEF InRun
  <2> QED BY <1>1, <1>2, <1>5, <2>0, <2>1, <2>2, <2>3 DEF Pending
<1>12. \A u \in Threads : Spawning(u)'
  <2> SUFFICES ASSUME NEW u \in Threads, thread'[u].pc = "spawning" PROVE Spawning(u)'
    BY DEF Spawning
  <2>1. u # t /\ thread'[u] = thread[u]
    BY <1>3, <1>4 DEF InRun
  <2>2. thread[u].run \in Runs
    BY <1>6, <2>1 DEF Placed, ThreadOK
  <2> QED BY <1>1, <2>1, <2>2 DEF Placed, Spawning, Run
<1>13. \A u \in Threads : Spawned(u)'
  <2>1. \A u \in Threads : thread'[u].pc # "none" => thread[u].pc # "none"
    BY <1>3, <1>4 DEF InRun
  <2> QED BY <1>1, <2>1 DEF Placed, Spawned
<1>14. \A r \in Runs : RunOK(r)'
  <2>1. \A u \in Threads : thread[u].pc # "none" => thread'[u].pc # "none"
    BY <1>3, <1>4 DEF InRun
  <2>2. \A r \in Runs : Begun(r) => \A s \in ProcsOf(r) : init[r].threads[s] \in Threads \cup {NoThread}
    BY RunType, RunFields DEF Types
  <2> QED BY <1>1, <1>5, <2>1, <2>2 DEF Placed, RunOK
<1> QED BY <1>8, <1>9, <1>10, <1>11, <1>12, <1>13, <1>14 DEF Placed

(* The value that stands for no thread is none. *)
LEMMA NoThreadIsNone == NoThread \notin Threads
<1>1. MaxRuns * (MaxP - 1) \in Nat
  BY BoundsAssumption
<1>2. Cardinality(Threads) = MaxRuns * (MaxP - 1) + 1
  BY <1>1, FS_Interval DEF Threads
<1> QED BY <1>1, <1>2 DEF NoThread, Threads

(* A thread that has begun to run is in a stage. *)
LEMMA StageType ==
  ASSUME NEW x \in Records, x.pc \notin {"none", "main", "spawning"}
  PROVE  StageOf(x) \in Stages
<1>1. x.pc \in PCs /\ x.then \in Targets
  BY ThreadFields
<1>2. CASE x.pc # "wait"
  BY <1>1, <1>2 DEF StageOf, Stages, PCs
<1>3. CASE x.pc = "wait"
  BY <1>1, <1>3 DEF StageOf, Stages, Targets
<1> QED BY <1>2, <1>3

(* What a place of a run holds. *)
LEMMA SeatOf ==
  ASSUME Types, Placed, NEW r \in Runs, Begun(r), NEW s \in ProcsOf(r)
  PROVE  /\ s \in Ids /\ init[r].threads[s] \in Threads \cup {NoThread}
         /\ init[r].threads[s] # NoThread =>
              /\ thread[init[r].threads[s]] \in Records
              /\ thread[init[r].threads[s]].run = r /\ thread[init[r].threads[s]].id = s =>
                   thread[init[r].threads[s]].pc \notin {"none", "main", "spawning"}
<1>1. init[r].threads[s] \in Threads \cup {NoThread} /\ s \in Ids
  BY RunType, RunFields DEF Types
<1>2. ASSUME NEW u \in Threads, init[r].threads[s] = u, thread[u].run = r, thread[u].id = s
      PROVE  thread[u].pc \notin {"none", "main", "spawning"}
  BY <1>2, Constants, NoThreadIsNone DEF Placed, ThreadOK, Seated
<1> QED BY <1>1, <1>2 DEF Types, ThreadType

(* A run's views have their types. *)
LEMMA ViewType ==
  ASSUME Types, Placed, NEW r \in Runs, Begun(r)
  PROVE  /\ View(r) \in [ProcsOf(r) -> Views]
         /\ \A s \in ProcsOf(r) : View(r)[s] = SeatView(r, s) /\ Stage(r, s) \in Stages
<1> SUFFICES ASSUME NEW s \in ProcsOf(r) PROVE SeatView(r, s) \in Views /\ Stage(r, s) \in Stages
  BY DEF View
<1>1. Stage(r, s) \in Stages
  <2>1. "unborn" \in Stages /\ "away" \in Stages
    BY DEF Stages
  <2> QED BY <2>1, SeatOf, StageType DEF Stage
<1>2. s \in 0 .. init[r].P - 1 /\ s \in Ids /\ init[r].arrived \in [Arrays -> [0 .. init[r].P - 1 -> Nat]]
  BY RunType, RunFields DEF Types
<1>3. init[r].arrived["sl_condition"][s] \in Nat /\ init[r].arrived["sl_mid_condition"][s] \in Nat
      /\ init[r].arrived["sl_end_condition"][s] \in Nat
  BY <1>2 DEF Arrays
<1>4. history.syncs[r][s] \in Nat /\ history.manual[r][s] \in BOOLEAN
  BY <1>2 DEF Types, HistoryType, Histories
<1> QED BY <1>1, <1>3, <1>4 DEF SeatView, Views

(* The same as a formula, which can be said of the next state. *)
LEMMA ViewTypes ==
  Types /\ Placed => \A r \in Runs : Begun(r) =>
    View(r) \in [ProcsOf(r) -> Views] /\ \A p \in ProcsOf(r) : View(r)[p] = SeatView(r, p)
BY ViewType

(* And of the next state. *)
LEMMA ViewTypesNext ==
  (Types /\ Placed => \A r \in Runs : Begun(r) =>
    View(r) \in [ProcsOf(r) -> Views] /\ \A p \in ProcsOf(r) : View(r)[p] = SeatView(r, p))'
BY ViewTypes, PTL

(* A thread is in the place it says it is in. *)
LEMMA OwnStage ==
  ASSUME Types, Placed, NEW t \in Threads, thread[t].run # NoRun, thread[t].pc # "spawning"
  PROVE  /\ init[thread[t].run].threads[thread[t].id] = t
         /\ Stage(thread[t].run, thread[t].id) = StageOf(thread[t])
  BY NoThreadIsNone DEF Placed, Seated, Stage

(* A quiet step moves one process of one run. *)
LEMMA QuietStages ==
  ASSUME Types, Types', Placed, NEW t \in Threads, Quiet(t),
         NEW r, NEW s, r = thread[t].run, s = thread[t].id
  PROVE  /\ \A q \in Runs : Begun(q) => \A p \in ProcsOf(q) :
              q # r \/ p # s => Stage(q, p)' = Stage(q, p)
         /\ Stage(r, s) = StageOf(thread[t])
         /\ Stage(r, s)' = StageOf(thread'[t])
         /\ r \in Runs /\ s \in ProcsOf(r) /\ r # NoRun
<1>1. \A q \in Runs : init'[q].threads = init[q].threads
  BY QuietShape DEF SameShape
<1>2. r # NoRun /\ thread[t].pc # "spawning"
  BY DEF Quiet, InRun, Placed, ThreadOK
<1>3. r \in Runs /\ s \in ProcsOf(r)
  BY <1>2, SeatType DEF Placed
<1>4. /\ init[r].threads[s] = t
      /\ Stage(r, s) = StageOf(thread[t])
  BY <1>2, OwnStage
<1>5. thread'[t].run = r /\ thread'[t].id = s
  BY DEF Quiet, SameKeys
<1>6. Stage(r, s)' = StageOf(thread'[t])
  BY <1>1, <1>3, <1>4, <1>5, NoThreadIsNone DEF Stage
<1>7. ASSUME NEW q \in Runs, Begun(q), NEW p \in ProcsOf(q), q # r \/ p # s
      PROVE  Stage(q, p)' = Stage(q, p)
  <2>1. init[q].threads[p] \in Threads \cup {NoThread}
    BY <1>7, SeatOf
  <2>2. CASE init[q].threads[p] = t
    BY <1>1, <1>5, <1>7, <2>2 DEF Stage
  <2>3. CASE init[q].threads[p] # t
    BY <1>1, <2>1, <2>3 DEF Stage, Quiet
  <2> QED BY <2>2, <2>3
<1> QED BY <1>2, <1>3, <1>4, <1>6, <1>7

(* A quiet step changes one view of one run. *)
LEMMA QuietViews ==
  ASSUME Types, Types', Placed, NEW t \in Threads, Quiet(t),
         NEW r, NEW s, r = thread[t].run, s = thread[t].id
  PROVE  /\ \A q \in Runs : Begun(q) /\ q # r => View(q)' = View(q)
         /\ Moves(View(r), View(r)', s, ProcsOf(r))
         /\ View(r)[s] = SeatView(r, s)
         /\ View(r)'[s] = SeatView(r, s)'
         /\ SeatView(r, s).at = StageOf(thread[t])
         /\ SeatView(r, s)'.at = StageOf(thread'[t])
<1>1. r \in Runs /\ s \in ProcsOf(r) /\ r # NoRun /\ Begun(r)
  BY QuietStages DEF Placed, Seated
<1>2. /\ \A q \in Runs : Begun(q) => \A p \in ProcsOf(q) : q # r \/ p # s => Stage(q, p)' = Stage(q, p)
      /\ Stage(r, s) = StageOf(thread[t]) /\ Stage(r, s)' = StageOf(thread'[t])
  BY QuietStages
<1>3. \A q \in Runs : ProcsOf(q)' = ProcsOf(q) /\ (Begun(q)' <=> Begun(q))
  BY QuietShape
<1>4. Placed'
  BY QuietPlaced
<1>5. \A q \in Runs : Begun(q) /\ q # r => View(q)' = View(q)
  BY <1>2, <1>3 DEF View, SeatView, Quiet
<1>6. /\ View(r) \in [ProcsOf(r) -> Views] /\ \A p \in ProcsOf(r) : View(r)[p] = SeatView(r, p)
      /\ View(r)' \in [ProcsOf(r)' -> Views] /\ \A p \in ProcsOf(r)' : View(r)'[p] = SeatView(r, p)'
  <2>1. View(r) \in [ProcsOf(r) -> Views] /\ \A p \in ProcsOf(r) : View(r)[p] = SeatView(r, p)
    BY <1>1, ViewType
  <2>2. (View(r) \in [ProcsOf(r) -> Views] /\ \A p \in ProcsOf(r) : View(r)[p] = SeatView(r, p))'
    BY <1>1, <1>3, <1>4, ViewTypesNext
  <2> QED BY <2>1, <2>2
<1>7. \A p \in ProcsOf(r) : p # s => SeatView(r, p)' = SeatView(r, p)
  <2> SUFFICES ASSUME NEW p \in ProcsOf(r), p # s PROVE SeatView(r, p)' = SeatView(r, p)
    OBVIOUS
  <2>1. /\ \A a \in Arrays : init'[r].arrived[a][p] = init[r].arrived[a][p]
        /\ history'.syncs[r][p] = history.syncs[r][p] /\ history'.manual[r][p] = history.manual[r][p]
    BY DEF Quiet
  <2>2. Stage(r, p)' = Stage(r, p)
    BY <1>1, <1>2
  <2> QED BY <2>1, <2>2 DEF SeatView, Arrays
<1>8. Moves(View(r), View(r)', s, ProcsOf(r))
  BY <1>1, <1>3, <1>6, <1>7 DEF Moves
<1>9. SeatView(r, s).at = StageOf(thread[t]) /\ SeatView(r, s)'.at = StageOf(thread'[t])
  BY <1>2 DEF SeatView
<1> QED BY <1>1, <1>3, <1>5, <1>6, <1>8, <1>9

(* Places in which a process has no thread data of its own that the others
   may read. *)
Outside == {"unborn", "born", "ready", "joining", "exited"}

(* A thread in a run is in none of them. *)
LEMMA InRunStage ==
  ASSUME NEW x \in Records, x.pc \in InRun
  PROVE  StageOf(x) \notin Outside
<1>1. x.then \in Targets
  BY ThreadFields
<1>2. CASE x.pc # "wait"
  BY <1>2 DEF StageOf, InRun, Outside
<1>3. CASE x.pc = "wait"
  BY <1>1, <1>3 DEF StageOf, Targets, Outside
<1> QED BY <1>2, <1>3

(* A quiet step keeps what is known of the memory. *)
LEMMA QuietHeap ==
  ASSUME Types, Types', Placed, HeapInv, LinkedInv, NEW t \in Threads, Quiet(t)
  PROVE  HeapInv' /\ LinkedInv'
<1>0. PICK r, s : r = thread[t].run /\ s = thread[t].id
  OBVIOUS
<1>1. /\ \A q \in Runs : Begun(q) => \A p \in ProcsOf(q) : q # r \/ p # s => Stage(q, p)' = Stage(q, p)
      /\ Stage(r, s) = StageOf(thread[t]) /\ Stage(r, s)' = StageOf(thread'[t])
      /\ r \in Runs /\ s \in ProcsOf(r)
  BY <1>0, QuietStages
<1>2. Stage(r, s) \notin Outside /\ Stage(r, s)' \notin Outside
  <2>1. thread[t] \in Records /\ thread'[t] \in Records
    BY DEF Types, ThreadType
  <2> QED BY <1>1, <2>1, InRunStage DEF Quiet
<1>3. \A q \in Runs : Begun(q) => \A p \in ProcsOf(q) :
        \/ Stage(q, p)' = Stage(q, p)
        \/ Stage(q, p) \notin Outside /\ Stage(q, p)' \notin Outside
  BY <1>1, <1>2
<1>4. \A q \in Runs : /\ init'[q].abort = init[q].abort /\ init'[q].threads = init[q].threads
                      /\ init'[q].threadData = init[q].threadData /\ init'[q].P = init[q].P
                      /\ (Begun(q)' <=> Begun(q)) /\ ProcsOf(q)' = ProcsOf(q) /\ (Live(q)' <=> Live(q))
  BY QuietShape DEF SameShape
<1>5. heap' = heap /\ history'.begun = history.begun /\ \A u \in Threads : Inside(u)' = Inside(u)
  BY DEF Quiet, Inside
<1>6. /\ \A u \in Threads : u # t => thread'[u] = thread[u]
      /\ thread'[t].run = thread[t].run /\ thread[t].pc \in InRun /\ thread'[t].pc \in InRun
  BY DEF Quiet, SameKeys
<1>7. ASSUME NEW q \in Runs, Live(q) PROVE HeapOf(q)'
  <2>1. HeapOf(q) /\ Begun(q)
    BY <1>7 DEF HeapInv, HeapOfRun, Live
  <2>2. ASSUME NEW p \in ProcsOf(q) PROVE HeapOfSeat(q, p)'
    <3>1. HeapOfSeat(q, p)
      BY <2>1, <2>2 DEF HeapOf
    <3>2. \/ Stage(q, p)' = Stage(q, p)
          \/ Stage(q, p) \notin Outside /\ Stage(q, p)' \notin Outside
      BY <1>3, <2>1, <2>2
    <3> QED BY <3>1, <3>2, <1>4, <1>5 DEF HeapOfSeat, Outside, Descriptor, ThreadData, Queues
  <2> QED BY <2>1, <2>2, <1>4, <1>5 DEF HeapOf, SharedArrays, Descriptor, ThreadData, Queues
<1>8. \A u \in Threads : thread[u].run \in Runs \cup {NoRun}
  BY ThreadFields DEF Types, ThreadType
<1>9. \A u \in Threads : \A k \in 1 .. Len(Inside(u)) : Inside(u)[k] \in Runs \X Ids
  BY DEF Types, HistoryType, Histories, Inside
<1>10. HeapInv'
  <2>1. \A q \in Runs : HeapOfRun(q)'
    BY <1>4, <1>5, <1>7 DEF HeapInv, HeapOfRun, InitData
  <2>2. \A u \in Threads : InLiveRuns(u)'
    <3> SUFFICES ASSUME NEW u \in Threads PROVE InLiveRuns(u)'
      OBVIOUS
    <3>1. InLiveRuns(u) /\ thread'[u].run = thread[u].run /\ (thread'[u].pc # "exited" => thread[u].pc # "exited")
      BY <1>6 DEF InRun, HeapInv
    <3> QED BY <3>1, <1>4, <1>5, <1>8, <1>9 DEF InLiveRuns
  <2> QED BY <2>1, <2>2 DEF HeapInv
<1>11. LinkedInv'
  <2>1. ASSUME NEW q \in Runs PROVE Linked(q)'
    <3>1. Live(q) => \A p \in ProcsOf(q) :
            \/ Stage(q, p)' = Stage(q, p)
            \/ Stage(q, p) \notin Outside /\ Stage(q, p)' \notin Outside
      BY <1>3 DEF Live
    <3>2. Linked(q)
      BY DEF LinkedInv
    <3> QED BY <3>1, <3>2, <1>4 DEF Linked, Outside
  <2>2. ASSUME NEW u \in Threads, thread'[u].pc = "joining" PROVE Joined(u)'
    <3>1. u # t /\ thread'[u] = thread[u]
      BY <1>6, <2>2 DEF InRun
    <3>2. thread[u].run \in Runs /\ thread[u].run # NoRun /\ Seated(u) /\ Joined(u)
      BY <1>8, <2>2, <3>1 DEF Placed, ThreadOK, LinkedInv
    <3>3. PICK q \in Runs : q = thread[u].run
      BY <3>2
    <3>4. /\ init[q].P \in Nat /\ thread[u].count \in 1 .. init[q].P
          /\ \A p \in 0 .. init[q].P - 1 : init[q].threads[p] \in Threads \cup {NoThread}
      BY <2>2, <3>1, <3>2, <3>3, SeatType, RunFields DEF Joined, Run
    <3>5. \A p \in 1 .. thread[u].count - 1 : init[q].threads[p] \in Threads /\ thread[init[q].threads[p]].pc = "exited"
      BY <2>2, <3>1, <3>2, <3>3, <3>4 DEF Joined, Run
    <3>6. \A p \in 1 .. thread[u].count - 1 : thread'[init[q].threads[p]].pc = "exited"
      BY <3>5, <1>6 DEF InRun
    <3> QED BY <1>4, <3>1, <3>2, <3>3, <3>4, <3>5, <3>6, NoThreadIsNone DEF Joined, Run
  <2> QED BY <2>1, <2>2 DEF LinkedInv, Joined
<1> QED BY <1>10, <1>11

(* Places in which nobody can be in a run that was aborted. *)
Lonely == {"synced", "delivering", "checkpointing", "ended", "leaving", "joining"}
(* Places in bsp_sync before a checkpoint. *)
DueStages == {"to_synced", "synced", "to_delivering", "delivering", "to_due", "due"}

(* A quiet step concerns the account of its own run only. *)
LEMMA QuietSync ==
  ASSUME Types, Types', Placed, Synchronised, NEW t \in Threads, Quiet(t),
         NEW r, NEW s, r = thread[t].run, s = thread[t].id,
         init[r].abort /\ Aborted(r) => StageOf(thread'[t]) \notin Lonely /\ (s = 0 => StageOf(thread'[t]) \notin {"due", "manual"}),
         Live(r) /\ ~ init[r].abort /\ InStep(r) => InStep(r)'
  PROVE  Synchronised'
<1>1. \A q \in Runs : /\ SameShape(init[q], init'[q]) /\ (Begun(q)' <=> Begun(q))
                      /\ ProcsOf(q)' = ProcsOf(q) /\ (Live(q)' <=> Live(q))
  BY QuietShape
<1>2. /\ \A q \in Runs : Begun(q) => \A p \in ProcsOf(q) : q # r \/ p # s => Stage(q, p)' = Stage(q, p)
      /\ Stage(r, s)' = StageOf(thread'[t]) /\ r \in Runs /\ s \in ProcsOf(r)
  BY QuietStages
<1>3. \A q \in Runs : Begun(q) /\ q # r => View(q)' = View(q)
  BY QuietViews
<1>4. ASSUME NEW q \in Runs, Live(q), init[q].abort PROVE Aborted(q)'
  <2>1. Aborted(q) /\ Begun(q)
    BY <1>4 DEF Synchronised, Live
  <2> QED BY <1>1, <1>2, <1>4, <2>1 DEF Aborted, Lonely
<1>5. ASSUME NEW q \in Runs, Live(q), ~ init[q].abort PROVE InStep(q)'
  <2>1. InStep(q) /\ Begun(q)
    BY <1>5 DEF Synchronised, Live
  <2>2. CASE q = r
    BY <1>5, <2>1, <2>2
  <2>3. CASE q # r
    <3>1. View(q)' = View(q) /\ init'[q] = init[q] /\ hp' = hp /\ ProcsOf(q)' = ProcsOf(q)
      BY <1>1, <1>3, <2>1, <2>3 DEF Quiet
    <3> QED BY <2>1, <3>1 DEF InStep
  <2> QED BY <2>2, <2>3
<1> QED BY <1>1, <1>4, <1>5 DEF Synchronised, SameShape

(* And the checkpoints of its own run only. *)
LEMMA QuietData ==
  ASSUME Types, Types', Placed, DataInv, NEW t \in Threads, Quiet(t),
         NEW r, NEW s, r = thread[t].run, s = thread[t].id, DataOf(r)'
  PROVE  DataInv'
<1>1. \A q \in Runs : /\ SameShape(init[q], init'[q]) /\ (Begun(q)' <=> Begun(q))
                      /\ ProcsOf(q)' = ProcsOf(q) /\ (Live(q)' <=> Live(q))
  BY QuietShape
<1>2. /\ \A q \in Runs : Begun(q) => \A p \in ProcsOf(q) : q # r \/ p # s => Stage(q, p)' = Stage(q, p)
  BY QuietStages
<1>3. ASSUME NEW q \in Runs, q # r PROVE DataOf(q)'
  <2>1. /\ init'[q] = init[q] /\ history'.syncs[q] = history.syncs[q]
        /\ history'.manual[q] = history.manual[q] /\ history'.since[q] = history.since[q]
    BY <1>3 DEF Quiet
  <2>2. DataOf(q)
    BY DEF DataInv
  <2>3. Begun(q) => Stage(q, 0)' = Stage(q, 0)
    BY <1>2, <1>3, RunType DEF Types
  <2> QED BY <1>1, <2>1, <2>2, <2>3 DEF DataOf
<1> QED BY <1>3 DEF DataInv

(* The data are the same, and process 0 has not got past the place where
   a checkpoint is made with one due. *)
LEMMA QuietSameData ==
  ASSUME Types, Types', Placed, DataInv, NEW t \in Threads, Quiet(t),
         NEW r, NEW s, r = thread[t].run, s = thread[t].id,
         SameData(init[r], init'[r]), history'.since = history.since,
         s = 0 => StageOf(thread'[t]) \in DueStages \/ StageOf(thread[t]) \notin DueStages \/ ~ Due(init[r])
  PROVE  DataInv'
<1>1. \A q \in Runs : /\ SameShape(init[q], init'[q]) /\ (Begun(q)' <=> Begun(q))
                      /\ ProcsOf(q)' = ProcsOf(q) /\ (Live(q)' <=> Live(q))
  BY QuietShape
<1>2. /\ \A q \in Runs : Begun(q) => \A p \in ProcsOf(q) : q # r \/ p # s => Stage(q, p)' = Stage(q, p)
      /\ Stage(r, s) = StageOf(thread[t]) /\ Stage(r, s)' = StageOf(thread'[t]) /\ r \in Runs /\ s \in ProcsOf(r)
  BY QuietStages
<1>3. Due(init[r])' <=> Due(init[r])
  BY DEF SameData, Due, CpFrequency
<1>4. 0 \in ProcsOf(r) /\ Begun(r)
  <2>1. Begun(r)
    BY <1>2, QuietStages DEF Placed, Seated
  <2> QED BY <1>2, <2>1, RunType DEF Types
<1>5. DataOf(r)'
  <2>1. DataOf(r)
    BY <1>2 DEF DataInv
  <2>0. Stage(r, s) # "exited"
    <3>1. thread[t] \in Records /\ thread[t].pc \in InRun
      BY DEF Types, ThreadType, Quiet
    <3> QED BY <1>2, <3>1, InRunStage DEF Outside
  <2>2. Stage(r, 0)' \notin DueStages \cup {"exited"} =>
          Stage(r, 0) \notin DueStages \cup {"exited"} \/ ~ Due(init[r])
    BY <1>2, <1>4, <2>0
  <2> QED BY <1>1, <1>2, <1>3, <1>4, <2>1, <2>2 DEF DataOf, SameData, DueStages, SameShape
<1> QED BY <1>5, QuietData

(* A quiet step that keeps the account and the checkpoints of its run
   keeps the invariant. *)
LEMMA QuietStep ==
  ASSUME LifeIInv, Types', NEW t \in Threads, Quiet(t), Synchronised', DataInv'
  PROVE  LifeIInv'
BY QuietPlaced, QuietHeap DEF LifeIInv

(* The stage of a thread that waits. *)
LEMMA WaitStage ==
  ASSUME NEW x, x.pc = "wait"
  PROVE  /\ x.then = "synced" => StageOf(x) = "to_synced"
         /\ x.then = "delivering" => StageOf(x) = "to_delivering"
         /\ x.then = "due" => StageOf(x) = "to_due"
         /\ x.then = "manual" => StageOf(x) = "to_manual"
         /\ x.then = "ended" => StageOf(x) = "to_ended"
         /\ x.then = "leaving" => StageOf(x) = "to_leaving"
         /\ x.then = "user" /\ x.on = "sl_end_condition" => StageOf(x) = "to_user"
         /\ x.then = "user" /\ x.on = "sl_condition" => StageOf(x) = "begin"
BY DEF StageOf

(* What a quiet step may do to what is remembered. *)
QuietHistory(t) ==
  LET r == thread[t].run IN
  /\ HistoryType' /\ history'.inside = history.inside /\ history'.begun = history.begun
  /\ \A q \in Runs : q # r =>
       /\ history'.syncs[q] = history.syncs[q]
       /\ history'.manual[q] = history.manual[q] /\ history'.since[q] = history.since[q]
  /\ \A s \in ProcsOf(r) : s # thread[t].id =>
       history'.syncs[r][s] = history.syncs[r][s] /\ history'.manual[r][s] = history.manual[r][s]

(* The thread that moves becomes x and the init struct of its run j. *)
QuietTo(t, x, j) ==
  LET r == thread[t].run IN
  /\ thread[t].pc \in InRun /\ x \in Records /\ j \in RunOf(init[r].P)
  /\ thread' = [thread EXCEPT ![t] = x] /\ init' = [init EXCEPT ![r] = j]
  /\ x.pc \in InRun /\ LocalOK(x) /\ SameKeys(thread[t], x) /\ SameShape(init[r], j)
  /\ \A a \in Arrays : \A q \in ProcsOf(r) : q # thread[t].id => j.arrived[a][q] = init[r].arrived[a][q]
  /\ QuietHistory(t) /\ MachineType' /\ hp' = hp /\ heap' = heap /\ failing' = failing /\ fatal' = fatal

(* A step that changes one thread's variables and its run's init struct as
   a quiet step may is one. *)
LEMMA QuietParts ==
  ASSUME Types, Placed, NEW t \in Threads, NEW x, NEW j, QuietTo(t, x, j), NEW r, NEW s, r = thread[t].run, s = thread[t].id
  PROVE  /\ Types' /\ Quiet(t) /\ thread'[t] = x /\ init'[r] = j
         /\ r \in Runs /\ s \in ProcsOf(r) /\ Begun(r) /\ thread[t] \in Records
         /\ init[r] \in RunOf(init[r].P) /\ init[r].P \in Nat /\ ProcsOf(r) = 0 .. init[r].P - 1
         /\ r # NoRun
<1>0. /\ thread[t].pc \in InRun /\ x \in Records /\ j \in RunOf(init[r].P)
      /\ thread' = [thread EXCEPT ![t] = x] /\ init' = [init EXCEPT ![r] = j]
      /\ x.pc \in InRun /\ LocalOK(x) /\ SameKeys(thread[t], x) /\ SameShape(init[r], j)
      /\ \A a \in Arrays, q \in ProcsOf(r) : q # s => j.arrived[a][q] = init[r].arrived[a][q]
      /\ QuietHistory(t) /\ MachineType' /\ hp' = hp /\ heap' = heap
      /\ failing' = failing /\ fatal' = fatal
  BY DEF QuietTo
<1>1. r # NoRun /\ Seated(t)
  BY <1>0 DEF Placed, ThreadOK, InRun
<1>2. /\ r \in Runs /\ Begun(r) /\ s \in ProcsOf(r) /\ init[r] \in RunOf(init[r].P)
      /\ init[r].P \in 1 .. MaxP /\ init[r].P \in Nat /\ ProcsOf(r) = 0 .. init[r].P - 1
  BY <1>1, SeatType
<1>3. InitType' /\ init'[r] = j /\ \A q \in Runs : q # r => init'[q] = init[q]
  BY <1>0, <1>2, InitUpdate, ZenonT(60) DEF Types
<1>4. /\ thread \in [Threads -> Records] /\ thread[t] \in Records /\ ThreadType'
      /\ thread'[t] = x /\ \A u \in Threads : u # t => thread'[u] = thread[u]
  BY <1>0 DEF Types, ThreadType
<1>5. HeapType'
  BY <1>0 DEF Types, HeapType, InitData, SharedArrays, Descriptor, ThreadData, Queues
<1>6. Types'
  BY <1>0, <1>3, <1>4, <1>5 DEF Types, QuietHistory
<1>7. Quiet(t)
  BY <1>0, <1>2, <1>3, <1>4 DEF Quiet, QuietHistory
<1> QED BY <1>0, <1>1, <1>2, <1>3, <1>4, <1>6, <1>7

(* If the account of its run is kept, however the step moves the base, the
   run stays in step. *)
LEMMA QuietAccount ==
  ASSUME Types, Types', Placed, NEW t \in Threads, Quiet(t), NEW r, r = thread[t].run,
         \A b \in Bases :
           Account(View(r), ProcsOf(r), b, hp, init[r].ended, Due(init[r]), ManualAt[r])
           => \E b2 \in Bases :
                Account(View(r)', ProcsOf(r), b2, hp, init'[r].ended, Due(init'[r]), ManualAt[r])
  PROVE  InStep(r) => InStep(r)'
<1>1. ProcsOf(r)' = ProcsOf(r) /\ hp' = hp
  <2>1. r \in Runs
    BY QuietStages
  <2> QED BY <2>1, QuietShape DEF Quiet
<1> QED BY <1>1 DEF InStep

(* Due is TRUE or FALSE. *)
LEMMA DueIsBoolean == \A i : Due(i) \in BOOLEAN
BY DEF Due

(* A thread that only goes on. *)
GoesTo(t, to) ==
  /\ thread[t].pc \in InRun /\ to \in InRun \ {"wait", "linked", "checkpointing"}
  /\ to \in {"ended", "leaving"} => thread[t].init_data = NoRun
  /\ thread' = [thread EXCEPT ![t].pc = to]
  /\ UNCHANGED <<hp, heap, init, machine, failing, fatal, history>>

(* A thread that only goes on makes a quiet step. *)
LEMMA PcParts ==
  ASSUME Types, Placed, NEW t \in Threads, NEW to, GoesTo(t, to),
         NEW r, NEW s, r = thread[t].run, s = thread[t].id
  PROVE  /\ Types' /\ Quiet(t) /\ StageOf(thread'[t]) = to
         /\ init'[r] = init[r] /\ r \in Runs /\ s \in ProcsOf(r) /\ Begun(r) /\ thread[t] \in Records
         /\ Step(SeatView(r, s), SeatView(r, s)', to, 0, 0, 0)
<1>0. /\ thread[t].pc \in InRun /\ to \in InRun \ {"wait", "linked", "checkpointing"}
      /\ to \in {"ended", "leaving"} => thread[t].init_data = NoRun
      /\ thread' = [thread EXCEPT ![t].pc = to]
      /\ init' = init /\ history' = history /\ machine' = machine /\ hp' = hp /\ heap' = heap
      /\ failing' = failing /\ fatal' = fatal
  BY DEF GoesTo
<1>1. PICK x : x = [thread[t] EXCEPT !.pc = to]
  OBVIOUS
<1>2. thread' = [thread EXCEPT ![t] = x]
  BY <1>0, <1>1 DEF Types, ThreadType
<1>3. thread[t] \in Records /\ to \in PCs
  BY <1>0 DEF Types, ThreadType, InRun, PCs
<1>4. x \in Records /\ x.pc = to /\ SameKeys(thread[t], x)
  BY <1>1, <1>3 DEF Records, SameKeys
<1>5. LocalOK(x)
  BY <1>0, <1>4 DEF LocalOK, SameKeys
<1>6. r # NoRun /\ Seated(t)
  BY <1>0 DEF Placed, ThreadOK, InRun
<1>7. r \in Runs /\ init[r] \in RunOf(init[r].P) /\ SameShape(init[r], init[r])
  BY <1>6, SeatType DEF SameShape
<1>8. init' = [init EXCEPT ![r] = init[r]]
  BY <1>0, <1>7 DEF Types, InitType
<1>9. QuietHistory(t) /\ MachineType'
  BY <1>0 DEF QuietHistory, Types, HistoryType, Histories, MachineType
<1>a. QuietTo(t, x, init[r])
  BY <1>0, <1>2, <1>4, <1>5, <1>7, <1>8, <1>9 DEF QuietTo
<1>10. /\ Types' /\ Quiet(t) /\ thread'[t] = x /\ init'[r] = init[r]
       /\ r \in Runs /\ s \in ProcsOf(r) /\ Begun(r)
  BY <1>a, QuietParts
<1>11. StageOf(thread'[t]) = to
  BY <1>0, <1>4, <1>10 DEF StageOf
<1>12. SeatView(r, s)'.at = to
  BY <1>10, <1>11, QuietViews
<1>13. /\ SeatView(r, s)'.A = SeatView(r, s).A + 0 /\ SeatView(r, s)'.M = SeatView(r, s).M + 0
       /\ SeatView(r, s)'.E = SeatView(r, s).E + 0
       /\ SeatView(r, s)'.y = SeatView(r, s).y /\ SeatView(r, s)'.man = SeatView(r, s).man
  <2>1. View(r)[s] \in Views
    BY <1>10, ViewType
  <2>2. SeatView(r, s) \in Views
    BY <1>10, <2>1, ViewType
  <2>3. SeatView(r, s).A \in Nat /\ SeatView(r, s).M \in Nat /\ SeatView(r, s).E \in Nat
    BY <2>2, ViewFields
  <2>4. /\ SeatView(r, s)'.A = SeatView(r, s).A /\ SeatView(r, s)'.M = SeatView(r, s).M
        /\ SeatView(r, s)'.E = SeatView(r, s).E
        /\ SeatView(r, s)'.y = SeatView(r, s).y /\ SeatView(r, s)'.man = SeatView(r, s).man
    BY <1>0, <1>10 DEF SeatView
  <2> QED BY <2>3, <2>4
<1> QED BY <1>3, <1>10, <1>11, <1>12, <1>13 DEF Step, Arriving

(* How many arrivals an arrival at array a adds to an array. *)
Plus(array, a) == IF array = a THEN 1 ELSE 0

(* A thread that announces itself and waits. *)
LEMMA ArriveParts ==
  ASSUME Types, Placed, NEW t \in Threads, NEW r, NEW s, r = thread[t].run, s = thread[t].id,
         thread[t].pc \in InRun, NEW a \in Arrays, NEW to \in Targets, Arrive(t, a, to),
         to \in {"ended", "leaving"} => thread[t].init_data = NoRun,
         a = CASE to = "delivering" -> "sl_mid_condition"
               [] to = "user" /\ a = "sl_end_condition" -> "sl_end_condition"
               [] OTHER -> "sl_condition",
         QuietHistory(t), machine' = machine, hp' = hp, heap' = heap, failing' = failing, fatal' = fatal
  PROVE  /\ Types' /\ Quiet(t) /\ thread'[t].pc = "wait" /\ thread'[t].on = a /\ thread'[t].then = to
         /\ init'[r].ended = init[r].ended /\ SameData(init[r], init'[r])
         /\ r \in Runs /\ s \in ProcsOf(r) /\ Begun(r) /\ thread[t] \in Records
         /\ Arriving(SeatView(r, s), SeatView(r, s)', StageOf(thread'[t]), Plus("sl_condition", a),
                     Plus("sl_mid_condition", a), Plus("sl_end_condition", a))
<1>1. r # NoRun /\ Seated(t)
  BY DEF Placed, ThreadOK, InRun
<1>2. /\ r \in Runs /\ s \in 0 .. init[r].P - 1 /\ init[r] \in RunOf(init[r].P) /\ init[r].P \in Nat
      /\ ProcsOf(r) = 0 .. init[r].P - 1
  BY <1>1, SeatType
<1>3. PICK j : j = Announced(init[r], s, a)
  OBVIOUS
<1>4. /\ j \in RunOf(init[r].P) /\ SameShape(init[r], j) /\ SameData(init[r], j)
      /\ j.ended = init[r].ended /\ OneArrival(init[r], j, s, a)
  BY <1>2, <1>3, AnnouncedEffect
<1>5. PICK x : x = Waiting(t, a, to)
  OBVIOUS
<1>6. init' = [init EXCEPT ![r] = j] /\ thread' = [thread EXCEPT ![t] = x]
  BY <1>3, <1>5 DEF Arrive
<1>7. x \in Records /\ thread[t] \in Records
  BY <1>5, WaitingType DEF Types, ThreadType
<1>8. x.pc = "wait" /\ x.on = a /\ x.then = to /\ SameKeys(thread[t], x)
  BY <1>5, <1>7 DEF Waiting, Records, SameKeys
<1>9. LocalOK(x) /\ x.pc \in InRun
  BY <1>8 DEF LocalOK, SameKeys, InRun
<1>10. \A c \in Arrays, q \in ProcsOf(r) : q # s => j.arrived[c][q] = init[r].arrived[c][q]
  BY <1>2, <1>4 DEF OneArrival, RunOf
<1>11. MachineType'
  BY DEF Types, MachineType
<1>a. QuietTo(t, x, j)
  BY <1>4, <1>6, <1>7, <1>8, <1>9, <1>10, <1>11 DEF QuietTo
<1>12. /\ Types' /\ Quiet(t) /\ thread'[t] = x /\ init'[r] = j
       /\ r \in Runs /\ s \in ProcsOf(r) /\ Begun(r)
  BY <1>a, QuietParts
<1>13. SeatView(r, s)'.at = StageOf(thread'[t])
  BY <1>12, QuietViews
<1>14. /\ j.arrived[a][s] = init[r].arrived[a][s] + 1
       /\ \A c \in Arrays : c # a => j.arrived[c][s] = init[r].arrived[c][s]
       /\ \A c \in Arrays : init[r].arrived[c][s] \in Nat
  BY <1>2, <1>4, RunFields DEF OneArrival
<1>15. \A c \in Arrays : j.arrived[c][s] = init[r].arrived[c][s] + Plus(c, a)
  BY <1>14 DEF Plus
<1>16. /\ SeatView(r, s)'.A = SeatView(r, s).A + Plus("sl_condition", a)
       /\ SeatView(r, s)'.M = SeatView(r, s).M + Plus("sl_mid_condition", a)
       /\ SeatView(r, s)'.E = SeatView(r, s).E + Plus("sl_end_condition", a)
  BY <1>12, <1>15 DEF SeatView, Arrays
<1> QED BY <1>4, <1>7, <1>8, <1>12, <1>13, <1>16 DEF Arriving

(* A step that remembers nothing is quiet in that. *)
LEMMA SameHistory ==
  ASSUME Types, history' = history, NEW t
  PROVE  QuietHistory(t) /\ history'.since = history.since
BY DEF QuietHistory, Types, HistoryType, Histories

(* However the processes of its run stand, the step keeps their account. *)
Carried(r, s) ==
  LET S == ProcsOf(r)
  IN \A b \in Bases : \A V, W :
       /\ Moves(V, W, s, S) /\ V[s] = SeatView(r, s) /\ (\A q \in S : V[q] = SeatView(r, q)) /\ W[s] = SeatView(r, s)'
       /\ Account(V, S, b, hp, init[r].ended, Due(init[r]), ManualAt[r])
       => \E b2 \in Bases : Account(W, S, b2, hp, init'[r].ended, Due(init'[r]), ManualAt[r])

(* It is nowhere where an aborted run must have nobody. *)
Lawful(t) ==
  init[thread[t].run].abort /\ Aborted(thread[t].run) =>
    /\ StageOf(thread'[t]) \notin Lonely
    /\ thread[t].id = 0 => StageOf(thread'[t]) \notin {"due", "manual"}

(* A quiet step that carries the account on keeps the invariant. *)
LEMMA CarriedStep ==
  ASSUME LifeIInv, Types', NEW t \in Threads, Quiet(t), Lawful(t),
         NEW r, NEW s, r = thread[t].run, s = thread[t].id, Carried(r, s), DataInv'
  PROVE  LifeIInv'
<1>0. Types /\ Placed /\ Synchronised
  BY DEF LifeIInv
<1>2. /\ Moves(View(r), View(r)', s, ProcsOf(r)) /\ View(r)[s] = SeatView(r, s)
      /\ View(r)'[s] = SeatView(r, s)' /\ \A q \in ProcsOf(r) : View(r)[q] = SeatView(r, q)
  BY <1>0, QuietViews, QuietStages, ViewType DEF Placed, Seated
<1>3. ASSUME NEW b \in Bases,
             Account(View(r), ProcsOf(r), b, hp, init[r].ended, Due(init[r]), ManualAt[r])
      PROVE  \E b2 \in Bases :
               Account(View(r)', ProcsOf(r), b2, hp, init'[r].ended, Due(init'[r]), ManualAt[r])
  <2>1. \A V, W :
          /\ Moves(V, W, s, ProcsOf(r)) /\ V[s] = SeatView(r, s) /\ (\A q \in ProcsOf(r) : V[q] = SeatView(r, q)) /\ W[s] = SeatView(r, s)'
          /\ Account(V, ProcsOf(r), b, hp, init[r].ended, Due(init[r]), ManualAt[r])
          => \E b2 \in Bases : Account(W, ProcsOf(r), b2, hp, init'[r].ended, Due(init'[r]), ManualAt[r])
    BY DEF Carried
  <2> QED BY <1>2, <1>3, <2>1
<1>4. InStep(r) => InStep(r)'
  BY <1>0, <1>3, QuietAccount
<1>5. init[r].abort /\ Aborted(r) =>
        StageOf(thread'[t]) \notin Lonely /\ (s = 0 => StageOf(thread'[t]) \notin {"due", "manual"})
  BY DEF Lawful
<1>6. Synchronised'
  BY <1>0, <1>4, <1>5, QuietSync
<1> QED BY <1>6, QuietStep

(* The same for a step that leaves the settings and the counts alone. *)
LEMMA CarriedSameData ==
  ASSUME LifeIInv, Types', NEW t \in Threads, Quiet(t), Lawful(t),
         NEW r, NEW s, r = thread[t].run, s = thread[t].id, Carried(r, s),
         SameData(init[r], init'[r]), history'.since = history.since,
         s = 0 => \/ StageOf(thread'[t]) \in DueStages \/ StageOf(thread[t]) \notin DueStages
                  \/ ~ Due(init[r])
  PROVE  LifeIInv'
<1>1. DataInv'
  BY QuietSameData DEF LifeIInv
<1> QED BY <1>1, CarriedStep

(* The facts about the run of a thread that the moves need. *)
LEMMA CarriedTypes ==
  ASSUME Types, Types', Placed, NEW t \in Threads, Quiet(t), NEW r, r = thread[t].run
  PROVE  /\ r \in Runs /\ hp \in BOOLEAN /\ init[r].ended \in BOOLEAN /\ init'[r].ended \in BOOLEAN
         /\ Due(init[r]) \in BOOLEAN /\ Due(init'[r]) \in BOOLEAN
         /\ SameData(init[r], init'[r]) => Due(init'[r]) = Due(init[r])
<1>1. r \in Runs /\ Begun(r)
  BY QuietStages DEF Placed, Seated
<1>2. Begun(r)'
  BY <1>1, QuietShape
<1>3. init[r].ended \in BOOLEAN
  BY <1>1, RunType, RunFields DEF Types
<1>4. InitType' => (Begun(r)' => init'[r].ended \in BOOLEAN)
  <2>1. InitType => (Begun(r) => init[r].ended \in BOOLEAN)
    BY <1>1, RunType, RunFields
  <2> QED BY <1>1, RunFields DEF InitType, Begun
<1>5. SameData(init[r], init'[r]) => Due(init'[r]) = Due(init[r])
  BY DEF SameData, Due, CpFrequency
<1> QED BY <1>1, <1>2, <1>3, <1>4, <1>5, DueIsBoolean DEF Types

(* A thread may wait in an aborted run. *)
LEMMA WaitIsLawful ==
  ASSUME NEW t, thread'[t].pc = "wait"
  PROVE  Lawful(t)
BY DEF Lawful, StageOf, Lonely

(* A new process may wait for the others in bsp_begin (bsp.c:61-80), or go
   to user code. *)
LEMMA BeginSiblingStep ==
  ASSUME LifeIInv, NEW t \in Threads, BeginSibling(t)
  PROVE  LifeIInv'
<1>0. Types /\ Placed /\ history' = history /\ thread[t].pc = "linked" /\ thread[t].pc \in InRun
  BY DEF LifeIInv, BeginSibling, InRun
<1>1. PICK r, s : r = thread[t].run /\ s = thread[t].id
  OBVIOUS
<1>2. QuietHistory(t) /\ history'.since = history.since
  BY <1>0, SameHistory
<1>3. thread[t].init_data = NoRun
  BY <1>0 DEF Placed, ThreadOK, LocalOK
<1>4. StageOf(thread[t]) = "linked" /\ SeatView(r, s).y = SeatView(r, s)'.y /\ SeatView(r, s).man = SeatView(r, s)'.man
  BY <1>0 DEF StageOf, SeatView
<1>5. CASE hp
  <2>1. Arrive(t, "sl_condition", "user") /\ "sl_condition" \in Arrays /\ "user" \in Targets
    BY <1>5 DEF BeginSibling, Arrays, Targets
  <2>2. /\ Types' /\ Quiet(t) /\ thread'[t].pc = "wait" /\ thread'[t].on = "sl_condition" /\ thread'[t].then = "user"
        /\ init'[r].ended = init[r].ended /\ SameData(init[r], init'[r])
        /\ r \in Runs /\ s \in ProcsOf(r) /\ Begun(r) /\ thread[t] \in Records
        /\ Arriving(SeatView(r, s), SeatView(r, s)', StageOf(thread'[t]), Plus("sl_condition", "sl_condition"),
                     Plus("sl_mid_condition", "sl_condition"), Plus("sl_end_condition", "sl_condition"))
    BY <1>0, <1>1, <1>2, <1>3, <2>1, ArriveParts DEF BeginSibling
  <2>3. StageOf(thread'[t]) = "begin"
    BY <2>2, WaitStage
  <2>4. Step(SeatView(r, s), SeatView(r, s)', "begin", 1, 0, 0)
    BY <1>4, <2>2, <2>3 DEF Step, Arriving, Plus
  <2>5. SeatView(r, s).at = "linked"
    BY <1>0, <1>1, <1>4, <2>2, QuietViews
  <2>6. /\ hp \in BOOLEAN /\ init[r].ended \in BOOLEAN /\ Due(init[r]) \in BOOLEAN
        /\ Due(init'[r]) = Due(init[r])
    BY <1>0, <1>1, <2>2, CarriedTypes
  <2>7. Carried(r, s)
    <3> SUFFICES ASSUME NEW b \in Bases, NEW V, NEW W, Moves(V, W, s, ProcsOf(r)),
                        V[s] = SeatView(r, s), \A q \in ProcsOf(r) : V[q] = SeatView(r, q), W[s] = SeatView(r, s)',
                        Account(V, ProcsOf(r), b, hp, init[r].ended, Due(init[r]), ManualAt[r])
                 PROVE  Account(W, ProcsOf(r), b, hp, init[r].ended, Due(init[r]), ManualAt[r])
      BY <2>2, <2>6 DEF Carried
    <3>1. V[s].at \in Early /\ Step(V[s], W[s], "begin", 1, 0, 0)
      BY <2>4, <2>5 DEF Early
    <3> QED BY <1>5, <2>6, <3>1, AnnounceMove, ZenonT(60)
  <2> QED BY <1>0, <1>1, <1>2, <1>4, <2>2, <2>7, WaitIsLawful, CarriedSameData DEF DueStages
<1>6. CASE ~ hp
  <2>1. GoesTo(t, "user")
    BY <1>6 DEF BeginSibling, GoesTo, InRun
  <2>2. /\ Types' /\ Quiet(t) /\ StageOf(thread'[t]) = "user"
        /\ init'[r] = init[r] /\ r \in Runs /\ s \in ProcsOf(r) /\ Begun(r) /\ thread[t] \in Records
        /\ Step(SeatView(r, s), SeatView(r, s)', "user", 0, 0, 0)
    BY <1>0, <1>1, <2>1, PcParts
  <2>5. SeatView(r, s).at = "linked"
    BY <1>0, <1>1, <1>4, <2>2, QuietViews
  <2>6. hp \in BOOLEAN /\ init[r].ended \in BOOLEAN /\ Due(init[r]) \in BOOLEAN
    BY <1>0, <1>1, <2>2, CarriedTypes
  <2>7. Carried(r, s)
    <3> SUFFICES ASSUME NEW b \in Bases, NEW V, NEW W, Moves(V, W, s, ProcsOf(r)),
                        V[s] = SeatView(r, s), \A q \in ProcsOf(r) : V[q] = SeatView(r, q), W[s] = SeatView(r, s)',
                        Account(V, ProcsOf(r), b, hp, init[r].ended, Due(init[r]), ManualAt[r])
                 PROVE  Account(W, ProcsOf(r), b, hp, init[r].ended, Due(init[r]), ManualAt[r])
      BY <2>2, <2>6 DEF Carried
    <3>1. V[s].at \in Early /\ Step(V[s], W[s], "user", 0, 0, 0)
      BY <2>2, <2>5 DEF Early
    <3> QED BY <1>6, <2>6, <3>1, BeginMove
  <2>8. Lawful(t)
    BY <2>2 DEF Lawful, Lonely
  <2> QED BY <1>0, <1>1, <1>2, <1>4, <2>2, <2>7, <2>8, CarriedSameData DEF DueStages, SameData
<1> QED BY <1>5, <1>6

(* A move of the s-th process of run r that its account allows. *)
Keeps(r, s, to, a, m, e) ==
  LET S == ProcsOf(r)
  IN \A b \in Bases : \A V, W :
       /\ Moves(V, W, s, S) /\ V[s] = SeatView(r, s) /\ (\A q \in S : V[q] = SeatView(r, q)) /\ Step(V[s], W[s], to, a, m, e)
       /\ Account(V, S, b, hp, init[r].ended, Due(init[r]), ManualAt[r])
       => \E b2 \in Bases : Account(W, S, b2, hp, init[r].ended, Due(init[r]), ManualAt[r])

(* A thread arrives at a barrier and remembers nothing. *)
ArrivesTo(t, a, to) ==
  /\ thread[t].pc \in InRun /\ a \in Arrays /\ to \in Targets
  /\ a = CASE to = "delivering" -> "sl_mid_condition"
           [] to = "user" /\ a = "sl_end_condition" -> "sl_end_condition"
           [] OTHER -> "sl_condition"
  /\ to \in {"ended", "leaving"} => thread[t].init_data = NoRun
  /\ Arrive(t, a, to)
  /\ UNCHANGED <<hp, heap, machine, failing, fatal, history>>

(* If the account allows the arrival the invariant is kept. *)
LEMMA ArriveKeeps ==
  ASSUME LifeIInv, NEW t \in Threads, NEW a, NEW to, ArrivesTo(t, a, to),
         NEW r, NEW s, r = thread[t].run, s = thread[t].id,
         NEW st, \A x : x.pc = "wait" /\ x.on = a /\ x.then = to => StageOf(x) = st,
         Keeps(r, s, st, Plus("sl_condition", a), Plus("sl_mid_condition", a), Plus("sl_end_condition", a)),
         s = 0 => st \in DueStages \/ StageOf(thread[t]) \notin DueStages \/ ~ Due(init[r])
  PROVE  LifeIInv'
<1>0. /\ Types /\ Placed /\ history' = history /\ thread[t].pc \in InRun
      /\ a \in Arrays /\ to \in Targets /\ Arrive(t, a, to) /\ machine' = machine /\ hp' = hp
      /\ heap' = heap /\ failing' = failing /\ fatal' = fatal
      /\ to \in {"ended", "leaving"} => thread[t].init_data = NoRun
      /\ a = CASE to = "delivering" -> "sl_mid_condition"
               [] to = "user" /\ a = "sl_end_condition" -> "sl_end_condition"
               [] OTHER -> "sl_condition"
  BY DEF LifeIInv, ArrivesTo
<1>1. QuietHistory(t) /\ history'.since = history.since
  BY <1>0, SameHistory
<1>2. /\ Types' /\ Quiet(t) /\ thread'[t].pc = "wait" /\ thread'[t].on = a /\ thread'[t].then = to
      /\ init'[r].ended = init[r].ended /\ SameData(init[r], init'[r])
      /\ r \in Runs /\ s \in ProcsOf(r) /\ Begun(r) /\ thread[t] \in Records
      /\ Arriving(SeatView(r, s), SeatView(r, s)', StageOf(thread'[t]), Plus("sl_condition", a),
                   Plus("sl_mid_condition", a), Plus("sl_end_condition", a))
  BY <1>0, <1>1, ArriveParts
<1>3. StageOf(thread'[t]) = st
  BY <1>2
<1>4. Step(SeatView(r, s), SeatView(r, s)', st, Plus("sl_condition", a),
           Plus("sl_mid_condition", a), Plus("sl_end_condition", a))
  <2>1. SeatView(r, s).y = SeatView(r, s)'.y /\ SeatView(r, s).man = SeatView(r, s)'.man
    BY <1>0 DEF SeatView
  <2> QED BY <1>2, <1>3, <2>1 DEF Step
<1>5. Due(init'[r]) = Due(init[r]) /\ Lawful(t)
  BY <1>0, <1>2, CarriedTypes, WaitIsLawful
<1>6. Carried(r, s)
  <2> SUFFICES ASSUME NEW b \in Bases, NEW V, NEW W, Moves(V, W, s, ProcsOf(r)),
                      V[s] = SeatView(r, s), \A q \in ProcsOf(r) : V[q] = SeatView(r, q), W[s] = SeatView(r, s)',
                      Account(V, ProcsOf(r), b, hp, init[r].ended, Due(init[r]), ManualAt[r])
               PROVE  \E b2 \in Bases :
                        Account(W, ProcsOf(r), b2, hp, init[r].ended, Due(init[r]), ManualAt[r])
    BY <1>2, <1>5 DEF Carried
  <2>1. Step(V[s], W[s], st, Plus("sl_condition", a), Plus("sl_mid_condition", a), Plus("sl_end_condition", a))
    BY <1>4
  <2> QED BY <2>1 DEF Keeps
<1> QED BY <1>1, <1>2, <1>3, <1>5, <1>6, CarriedSameData

(* If the account allows to go on the invariant is kept. *)
LEMMA GoesKeeps ==
  ASSUME LifeIInv, NEW t \in Threads, NEW to, GoesTo(t, to),
         NEW r, NEW s, r = thread[t].run, s = thread[t].id, ~ init[r].abort,
         Keeps(r, s, to, 0, 0, 0),
         s = 0 => to \in DueStages \/ StageOf(thread[t]) \notin DueStages \/ ~ Due(init[r])
  PROVE  LifeIInv'
<1>0. Types /\ Placed /\ history' = history
  BY DEF LifeIInv, GoesTo
<1>1. history'.since = history.since
  BY <1>0
<1>2. /\ Types' /\ Quiet(t) /\ StageOf(thread'[t]) = to
      /\ init'[r] = init[r] /\ r \in Runs /\ s \in ProcsOf(r) /\ Begun(r)
      /\ Step(SeatView(r, s), SeatView(r, s)', to, 0, 0, 0)
  BY <1>0, PcParts
<1>5. Lawful(t) /\ SameData(init[r], init'[r])
  BY <1>2 DEF Lawful, SameData
<1>6. Carried(r, s)
  <2> SUFFICES ASSUME NEW b \in Bases, NEW V, NEW W, Moves(V, W, s, ProcsOf(r)),
                      V[s] = SeatView(r, s), \A q \in ProcsOf(r) : V[q] = SeatView(r, q), W[s] = SeatView(r, s)',
                      Account(V, ProcsOf(r), b, hp, init[r].ended, Due(init[r]), ManualAt[r])
               PROVE  \E b2 \in Bases :
                        Account(W, ProcsOf(r), b2, hp, init[r].ended, Due(init[r]), ManualAt[r])
    BY <1>2 DEF Carried
  <2>1. Step(V[s], W[s], to, 0, 0, 0)
    BY <1>2
  <2> QED BY <2>1 DEF Keeps
<1> QED BY <1>1, <1>2, <1>5, <1>6, CarriedSameData

(* What the moves of a process need to know of its run. *)
LEMMA RunFacts ==
  ASSUME Types, Placed, NEW t \in Threads, thread[t].pc \in InRun,
         NEW r, NEW s, r = thread[t].run, s = thread[t].id
  PROVE  /\ r \in Runs /\ hp \in BOOLEAN /\ init[r].ended \in BOOLEAN /\ Due(init[r]) \in BOOLEAN
         /\ Begun(r) /\ s \in ProcsOf(r) /\ r # NoRun
         /\ SeatView(r, s).at = StageOf(thread[t]) /\ Stage(r, s) = StageOf(thread[t])
         /\ View(r) \in [ProcsOf(r) -> Views] /\ \A q \in ProcsOf(r) : View(r)[q] = SeatView(r, q)
         /\ s = 0 <=> thread[t].id = 0
<1>1. r # NoRun /\ Seated(t) /\ thread[t].pc # "spawning"
  BY DEF Placed, ThreadOK, InRun
<1>2. r \in Runs /\ Begun(r) /\ s \in ProcsOf(r)
  BY <1>1, SeatType
<1>3. init[r].ended \in BOOLEAN
  BY <1>2, RunType, RunFields DEF Types
<1>4. Stage(r, s) = StageOf(thread[t])
  BY <1>1, OwnStage
<1> QED BY <1>1, <1>2, <1>3, <1>4, ViewType, DueIsBoolean DEF Types, SeatView

(* Nobody has ended: from the first barrier of bsp_sync to the second
   (bsp.c:657-793). *)
LEMMA ExchangeStep ==
  ASSUME LifeIInv, NEW t \in Threads, Exchange(t)
  PROVE  LifeIInv'
<1>0. /\ Types /\ Placed /\ thread[t].pc = "synced" /\ thread[t].pc \in InRun
      /\ ArrivesTo(t, "sl_mid_condition", "delivering") /\ ~ Run(t).ended
  BY DEF LifeIInv, Exchange, InRun, ArrivesTo, Arrays, Targets
<1>1. PICK r, s : r = thread[t].run /\ s = thread[t].id
  OBVIOUS
<1>2. \A x : x.pc = "wait" /\ x.on = "sl_mid_condition" /\ x.then = "delivering" => StageOf(x) = "to_delivering"
  BY WaitStage
<1>3. /\ r \in Runs /\ hp \in BOOLEAN /\ init[r].ended \in BOOLEAN /\ Due(init[r]) \in BOOLEAN
      /\ SeatView(r, s).at = "synced"
  BY <1>0, <1>1, RunFacts DEF StageOf
<1>4. Keeps(r, s, "to_delivering", 0, 1, 0)
  BY <1>0, <1>1, <1>3, ExchangeMove DEF Keeps, Run
<1>5. Plus("sl_condition", "sl_mid_condition") = 0 /\ Plus("sl_mid_condition", "sl_mid_condition") = 1
      /\ Plus("sl_end_condition", "sl_mid_condition") = 0
  BY DEF Plus
<1> QED BY <1>0, <1>1, <1>2, <1>4, <1>5, ArriveKeeps DEF DueStages

(* The values of Plus. *)
LEMMA PlusOf ==
  /\ Plus("sl_condition", "sl_condition") = 1 /\ Plus("sl_mid_condition", "sl_condition") = 0
  /\ Plus("sl_end_condition", "sl_condition") = 0
  /\ Plus("sl_condition", "sl_mid_condition") = 0 /\ Plus("sl_mid_condition", "sl_mid_condition") = 1
  /\ Plus("sl_end_condition", "sl_mid_condition") = 0
  /\ Plus("sl_condition", "sl_end_condition") = 0 /\ Plus("sl_mid_condition", "sl_end_condition") = 0
  /\ Plus("sl_end_condition", "sl_end_condition") = 1
BY DEF Plus

(* The way to the last barrier of bsp_sync or mcbsp_checkpoint. *)
LEMMA LastKeeps ==
  ASSUME LifeIInv, NEW t \in Threads, Arrive(t, "sl_end_condition", "user"),
         UNCHANGED <<hp, heap, machine, failing, fatal, history>>,
         thread[t].pc \in {"delivering", "due", "manual", "checkpointing"},
         thread[t].pc = "delivering" => ~ Due(Run(t)), thread[t].pc = "due" => thread[t].id # 0
  PROVE  LifeIInv'
<1>0. /\ Types /\ Placed /\ thread[t].pc \in InRun /\ ArrivesTo(t, "sl_end_condition", "user")
  BY DEF LifeIInv, InRun, ArrivesTo, Arrays, Targets
<1>1. PICK r, s : r = thread[t].run /\ s = thread[t].id
  OBVIOUS
<1>2. \A x : x.pc = "wait" /\ x.on = "sl_end_condition" /\ x.then = "user" => StageOf(x) = "to_user"
  BY WaitStage
<1>3. StageOf(thread[t]) = thread[t].pc
  BY DEF StageOf
<1>4. /\ r \in Runs /\ hp \in BOOLEAN /\ init[r].ended \in BOOLEAN /\ Due(init[r]) \in BOOLEAN
      /\ SeatView(r, s).at = thread[t].pc
  BY <1>0, <1>1, <1>3, RunFacts
<1>5. Keeps(r, s, "to_user", 0, 0, 1)
  <2> SUFFICES ASSUME NEW b \in Bases, NEW V, NEW W, Moves(V, W, s, ProcsOf(r)),
                      V[s] = SeatView(r, s), Step(V[s], W[s], "to_user", 0, 0, 1),
                      Account(V, ProcsOf(r), b, hp, init[r].ended, Due(init[r]), ManualAt[r])
               PROVE  \E b2 \in Bases :
                        Account(W, ProcsOf(r), b2, hp, init[r].ended, Due(init[r]), ManualAt[r])
    BY DEF Keeps
  <2>1. V[s].at \in {"delivering", "due", "manual", "checkpointing"} /\ (V[s].at = "delivering" => ~ Due(init[r]))
    BY <1>1, <1>4 DEF Run
  <2> QED BY <1>4, <2>1, LastMove
<1>6. s = 0 => StageOf(thread[t]) \notin DueStages \/ ~ Due(init[r])
  BY <1>1, <1>3 DEF DueStages, Run
<1> QED BY <1>0, <1>1, <1>2, <1>5, <1>6, PlusOf, ArriveKeeps

(* From the second barrier to the third, or to that before a checkpoint. *)
LEMMA DeliverStep ==
  ASSUME LifeIInv, NEW t \in Threads, Deliver(t)
  PROVE  LifeIInv'
<1>1. CASE ~ Due(Run(t))
  BY <1>1, LastKeeps DEF Deliver
<1>2. CASE Due(Run(t))
  <2>0. /\ Types /\ Placed /\ thread[t].pc = "delivering" /\ thread[t].pc \in InRun
        /\ ArrivesTo(t, "sl_condition", "due")
    BY <1>2 DEF LifeIInv, InRun, ArrivesTo, Arrays, Targets, Deliver
  <2>1. PICK r, s : r = thread[t].run /\ s = thread[t].id
    OBVIOUS
  <2>2. \A x : x.pc = "wait" /\ x.on = "sl_condition" /\ x.then = "due" => StageOf(x) = "to_due"
    BY WaitStage
  <2>3. /\ r \in Runs /\ hp \in BOOLEAN /\ init[r].ended \in BOOLEAN /\ Due(init[r]) \in BOOLEAN
        /\ SeatView(r, s).at = "delivering"
    BY <2>0, <2>1, RunFacts DEF StageOf
  <2>4. Keeps(r, s, "to_due", 1, 0, 0)
    BY <1>2, <2>1, <2>3, DueMove DEF Keeps, Run
  <2> QED BY <2>0, <2>1, <2>2, <2>4, PlusOf, ArriveKeeps DEF DueStages
<1> QED BY <1>1, <1>2

(* The others wait for the checkpoint of process 0. *)
LEMMA AwaitCheckpointStep ==
  ASSUME LifeIInv, NEW t \in Threads, AwaitCheckpoint(t)
  PROVE  LifeIInv'
BY LastKeeps DEF AwaitCheckpoint

(* The checkpoint is made. *)
LEMMA CheckpointDoneStep ==
  ASSUME LifeIInv, NEW t \in Threads, CheckpointDone(t)
  PROVE  LifeIInv'
BY LastKeeps DEF CheckpointDone

(* From the first barrier of bsp_end to the second (bsp.c:344-363). *)
LEMMA ProfileStep ==
  ASSUME LifeIInv, NEW t \in Threads, Profile(t)
  PROVE  LifeIInv'
<1>0. /\ Types /\ Placed /\ thread[t].pc = "ended" /\ thread[t].pc \in InRun
  BY DEF LifeIInv, Profile, InRun
<1>1. PICK r, s : r = thread[t].run /\ s = thread[t].id
  OBVIOUS
<1>2. ArrivesTo(t, "sl_condition", "leaving")
  <2>1. thread[t].init_data = NoRun
    BY <1>0 DEF Placed, ThreadOK, LocalOK
  <2> QED BY <1>0, <2>1 DEF ArrivesTo, Arrays, Targets, Profile
<1>3. \A x : x.pc = "wait" /\ x.on = "sl_condition" /\ x.then = "leaving" => StageOf(x) = "to_leaving"
  BY WaitStage
<1>4. /\ r \in Runs /\ hp \in BOOLEAN /\ init[r].ended \in BOOLEAN /\ Due(init[r]) \in BOOLEAN
      /\ SeatView(r, s).at = "ended" /\ StageOf(thread[t]) = "ended"
  BY <1>0, <1>1, RunFacts DEF StageOf
<1>5. Keeps(r, s, "to_leaving", 1, 0, 0)
  BY <1>4, ProfileMove DEF Keeps
<1> QED BY <1>1, <1>2, <1>3, <1>4, <1>5, PlusOf, ArriveKeeps DEF DueStages

(* A thread leaves a barrier at which all have arrived. *)
LEMMA LeaveBarrierStep ==
  ASSUME LifeIInv, NEW t \in Threads, LeaveBarrier(t)
  PROVE  LifeIInv'
<1>0. /\ Types /\ Placed /\ thread[t].pc = "wait" /\ thread[t].pc \in InRun /\ thread[t] \in Records
  BY DEF LifeIInv, LeaveBarrier, InRun, Types, ThreadType
<1>1. PICK r, s : r = thread[t].run /\ s = thread[t].id
  OBVIOUS
<1>2. PICK to : to = thread[t].then
  OBVIOUS
<1>3. /\ LocalOK(thread[t]) /\ to \in Targets /\ thread[t].on \in Arrays
  BY <1>0, <1>2, ThreadFields DEF Placed, ThreadOK
<1>4. GoesTo(t, to)
  BY <1>0, <1>2, <1>3 DEF GoesTo, LeaveBarrier, LocalOK, Targets, InRun
<1>5. /\ r \in Runs /\ hp \in BOOLEAN /\ init[r].ended \in BOOLEAN /\ Due(init[r]) \in BOOLEAN
      /\ Begun(r) /\ s \in ProcsOf(r)
      /\ SeatView(r, s).at = StageOf(thread[t])
  BY <1>0, <1>1, RunFacts
<1>6. /\ ~ init[r].abort
      /\ \A q \in DOMAIN init[r].arrived[thread[t].on] :
           init[r].arrived[thread[t].on][q] >= init[r].arrived[thread[t].on][s]
  BY <1>1 DEF LeaveBarrier, Open, Run
<1>7. DOMAIN init[r].arrived[thread[t].on] = ProcsOf(r)
  <2>1. init[r] \in RunOf(init[r].P) /\ ProcsOf(r) = 0 .. init[r].P - 1
    BY <1>0, <1>5, RunType DEF Types
  <2>2. init[r].arrived \in [Arrays -> [ProcsOf(r) -> Nat]]
    BY <2>1, RunFields
  <2>3. init[r].arrived[thread[t].on] \in [ProcsOf(r) -> Nat]
    BY <1>3, <2>2
  <2> QED BY <2>3
<1>8. /\ thread[t].on = "sl_condition" => \A q \in ProcsOf(r) : SeatView(r, q).A >= SeatView(r, s).A
      /\ thread[t].on = "sl_mid_condition" => \A q \in ProcsOf(r) : SeatView(r, q).M >= SeatView(r, s).M
      /\ thread[t].on = "sl_end_condition" => \A q \in ProcsOf(r) : SeatView(r, q).E >= SeatView(r, s).E
  BY <1>6, <1>7 DEF SeatView
<1>9. Keeps(r, s, to, 0, 0, 0)
  <2> SUFFICES ASSUME NEW b \in Bases, NEW V, NEW W, Moves(V, W, s, ProcsOf(r)),
                      V[s] = SeatView(r, s), \A q \in ProcsOf(r) : V[q] = SeatView(r, q),
                      Step(V[s], W[s], to, 0, 0, 0),
                      Account(V, ProcsOf(r), b, hp, init[r].ended, Due(init[r]), ManualAt[r])
               PROVE  \E b2 \in Bases :
                        Account(W, ProcsOf(r), b2, hp, init[r].ended, Due(init[r]), ManualAt[r])
    BY DEF Keeps
  <2>0. /\ thread[t].on = "sl_condition" => \A q \in ProcsOf(r) : V[q].A >= V[s].A
        /\ thread[t].on = "sl_mid_condition" => \A q \in ProcsOf(r) : V[q].M >= V[s].M
        /\ thread[t].on = "sl_end_condition" => \A q \in ProcsOf(r) : V[q].E >= V[s].E
    BY <1>8
  <2>1. CASE to = "user" /\ thread[t].on = "sl_end_condition"
    <3>1. V[s].at = "to_user"
      BY <1>0, <1>2, <1>5, <2>1, WaitStage
    <3> QED BY <1>5, <2>0, <2>1, <3>1, IdleMove
  <2>2. CASE to = "user" /\ thread[t].on # "sl_end_condition"
    <3>1. V[s].at = "begin" /\ thread[t].on = "sl_condition"
      BY <1>0, <1>2, <1>3, <1>5, <2>2, WaitStage DEF LocalOK
    <3> QED BY <1>5, <2>0, <2>2, <3>1, OpenBeginMove
  <2>3. CASE to = "synced"
    <3>1. V[s].at = "to_synced" /\ thread[t].on = "sl_condition"
      BY <1>0, <1>2, <1>3, <1>5, <2>3, WaitStage DEF LocalOK
    <3> QED BY <1>5, <2>0, <2>3, <3>1, SyncedMove
  <2>4. CASE to = "delivering"
    <3>1. V[s].at = "to_delivering" /\ thread[t].on = "sl_mid_condition"
      BY <1>0, <1>2, <1>3, <1>5, <2>4, WaitStage DEF LocalOK
    <3> QED BY <1>5, <2>0, <2>4, <3>1, DeliveringMove
  <2>5. CASE to = "due"
    <3>1. V[s].at = "to_due" /\ thread[t].on = "sl_condition"
      BY <1>0, <1>2, <1>3, <1>5, <2>5, WaitStage DEF LocalOK
    <3> QED BY <1>5, <2>0, <2>5, <3>1, AwaitDueMove
  <2>6. CASE to = "manual"
    <3>1. V[s].at = "to_manual" /\ thread[t].on = "sl_condition"
      BY <1>0, <1>2, <1>3, <1>5, <2>6, WaitStage DEF LocalOK
    <3> QED BY <1>5, <2>0, <2>6, <3>1, AwaitManualMove
  <2>7. CASE to = "ended"
    <3>1. V[s].at = "to_ended" /\ thread[t].on = "sl_condition"
      BY <1>0, <1>2, <1>3, <1>5, <2>7, WaitStage DEF LocalOK
    <3> QED BY <1>5, <2>0, <2>7, <3>1, EndedMove
  <2>8. CASE to = "leaving"
    <3>1. V[s].at = "to_leaving" /\ thread[t].on = "sl_condition"
      BY <1>0, <1>2, <1>3, <1>5, <2>8, WaitStage DEF LocalOK
    <3> QED BY <1>5, <2>0, <2>8, <3>1, LeaveMove
  <2> QED BY <1>3, <2>1, <2>2, <2>3, <2>4, <2>5, <2>6, <2>7, <2>8 DEF Targets
<1>10. to \in DueStages \/ StageOf(thread[t]) \notin DueStages
  BY <1>0, <1>2, <1>3 DEF StageOf, DueStages, Targets
<1> QED BY <1>1, <1>4, <1>6, <1>9, <1>10, GoesKeeps

(* Counting one more of those that are looked at every f times. *)
LEMMA NextCount ==
  ASSUME NEW k \in Nat, NEW f \in Nat, f > 0
  PROVE  /\ k % f \in Nat /\ k % f < f
         /\ (k + 1) % f = 0 => k + 1 >= f
         /\ (k + 1) % f # 0 => (k + 1) % f = (k % f) + 1
<1>1. k % f \in 0 .. f - 1 /\ (k + 1) % f \in 0 .. f - 1
  OBVIOUS
<1>2. k = f * (k \div f) + (k % f) /\ k \div f \in Nat
  OBVIOUS
<1>3. k + 1 = f * ((k + 1) \div f) + ((k + 1) % f) /\ (k + 1) \div f \in Nat
  OBVIOUS
<1>4. PICK q, c, d, e : q = k \div f /\ c = k % f /\ d = (k + 1) \div f /\ e = (k + 1) % f
  OBVIOUS
<1>5. f * q + c + 1 = f * d + e /\ q \in Nat /\ d \in Nat /\ c \in 0 .. f - 1 /\ e \in 0 .. f - 1
  BY <1>1, <1>2, <1>3, <1>4
<1>6. d = q \/ d = q + 1
  <2>1. ASSUME d >= q + 2 PROVE FALSE
    <3>1. f * d >= f * (q + 2)
      BY <1>5, <2>1
    <3>2. f * (q + 2) = f * q + 2 * f
      BY <1>5
    <3> QED BY <1>5, <3>1, <3>2
  <2>2. ASSUME d + 1 <= q PROVE FALSE
    <3>1. f * (d + 1) <= f * q
      BY <1>5, <2>2
    <3>2. f * (d + 1) = f * d + f
      BY <1>5
    <3> QED BY <1>5, <3>1, <3>2
  <2> QED BY <1>5, <2>1, <2>2
<1>7. e # 0 => e = c + 1
  BY <1>5, <1>6
<1>8. e = 0 => k + 1 >= f
  <2> SUFFICES ASSUME e = 0 PROVE k + 1 >= f
    OBVIOUS
  <2>1. k + 1 = f * d /\ d # 0
    BY <1>3, <1>4
  <2>2. f * d >= f * 1
    BY <1>5, <2>1
  <2> QED BY <2>1, <2>2
<1> QED BY <1>1, <1>4, <1>7, <1>8

(* What is remembered of a run's checkpoints. *)
Sinces == [syncs : Nat, failing : Nat, touched : BOOLEAN]

(* What is remembered of a process and of the checkpoints of its run is
   written anew. *)
HistoryTo(r, s, y, m, c, n) ==
  history' = [history EXCEPT
    !.syncs = [history.syncs EXCEPT ![r] = [history.syncs[r] EXCEPT ![s] = y]],
    !.manual = [history.manual EXCEPT ![r] = [history.manual[r] EXCEPT ![s] = m]],
    !.since = [history.since EXCEPT ![r] = c], !.settings = n]

(* One process has its count of calls and its flag written, its run what
   is remembered of its checkpoints. *)
LEMMA HistoryEffect ==
  ASSUME Types, NEW t \in Threads, NEW r \in Runs, NEW s \in Ids, r = thread[t].run, s = thread[t].id,
         NEW y \in Nat, NEW m \in BOOLEAN, NEW c \in Sinces, NEW n \in Nat,
         HistoryTo(r, s, y, m, c, n)
  PROVE  /\ QuietHistory(t) /\ history'.syncs[r][s] = y /\ history'.manual[r][s] = m
         /\ history'.since[r] = c
<1>1. /\ history \in Histories /\ history.syncs \in [Runs -> [Ids -> Nat]]
      /\ history.manual \in [Runs -> [Ids -> BOOLEAN]] /\ history.since \in [Runs -> Sinces]
  BY DEF Types, HistoryType, Histories, Sinces
<1>2. PICK a : a = [history.syncs[r] EXCEPT ![s] = y]
  OBVIOUS
<1>3. a \in [Ids -> Nat] /\ a[s] = y /\ \A q \in Ids : q # s => a[q] = history.syncs[r][q]
  BY <1>1, <1>2
<1>4. PICK aa : aa = [history.syncs EXCEPT ![r] = a]
  OBVIOUS
<1>5. aa \in [Runs -> [Ids -> Nat]] /\ aa[r] = a /\ \A q \in Runs : q # r => aa[q] = history.syncs[q]
  BY <1>1, <1>3, <1>4
<1>6. PICK b : b = [history.manual[r] EXCEPT ![s] = m]
  OBVIOUS
<1>7. b \in [Ids -> BOOLEAN] /\ b[s] = m /\ \A q \in Ids : q # s => b[q] = history.manual[r][q]
  BY <1>1, <1>6
<1>8. PICK bb : bb = [history.manual EXCEPT ![r] = b]
  OBVIOUS
<1>9. bb \in [Runs -> [Ids -> BOOLEAN]] /\ bb[r] = b /\ \A q \in Runs : q # r => bb[q] = history.manual[q]
  BY <1>1, <1>7, <1>8
<1>10. PICK cc : cc = [history.since EXCEPT ![r] = c]
  OBVIOUS
<1>11. cc \in [Runs -> Sinces] /\ cc[r] = c /\ \A q \in Runs : q # r => cc[q] = history.since[q]
  BY <1>1, <1>10
<1>12. history' = [history EXCEPT !.syncs = aa, !.manual = bb, !.since = cc, !.settings = n]
  <2>1. aa = [history.syncs EXCEPT ![r] = [history.syncs[r] EXCEPT ![s] = y]]
    BY <1>2, <1>4
  <2>2. bb = [history.manual EXCEPT ![r] = [history.manual[r] EXCEPT ![s] = m]]
    BY <1>6, <1>8
  <2> QED BY <1>10, <2>1, <2>2, Zenon DEF HistoryTo
<1>13. /\ history' \in Histories /\ history'.syncs = aa /\ history'.manual = bb /\ history'.since = cc
       /\ history'.inside = history.inside /\ history'.begun = history.begun
  BY <1>1, <1>5, <1>9, <1>11, <1>12 DEF Histories, Sinces
<1>14. ProcsOf(r) \subseteq Ids \/ ~ Begun(r)
  BY RunType DEF Types
<1>15. ~ Begun(r) => ProcsOf(r) = {}
  <2>1. ~ Begun(r) => init[r].P = 0
    BY DEF Types, InitType
  <2> QED BY <2>1 DEF ProcsOf
<1> QED BY <1>3, <1>5, <1>7, <1>9, <1>11, <1>13, <1>14, <1>15 DEF QuietHistory, HistoryType

(* The types of what is remembered. *)
LEMMA OwnHistory ==
  ASSUME Types, NEW r \in Runs, NEW s \in Ids
  PROVE  /\ history.syncs[r][s] \in Nat /\ history.manual[r][s] \in BOOLEAN
         /\ history.since[r] \in Sinces /\ history.settings \in Nat
         /\ history.since[r].syncs \in Nat /\ history.since[r].failing \in Nat
BY DEF Types, HistoryType, Histories, Sinces

----
(* Writing what is there already changes nothing. *)
LEMMA SameHistoryEffect ==
  ASSUME Types, NEW r \in Runs, NEW s \in Ids
  PROVE  /\ history.syncs = [history.syncs EXCEPT ![r] = [history.syncs[r] EXCEPT ![s] = history.syncs[r][s]]]
         /\ history.manual = [history.manual EXCEPT ![r] = [history.manual[r] EXCEPT ![s] = history.manual[r][s]]]
         /\ history.since = [history.since EXCEPT ![r] = history.since[r]]
<1>1. /\ history.syncs \in [Runs -> [Ids -> Nat]] /\ history.manual \in [Runs -> [Ids -> BOOLEAN]]
      /\ history.since \in [Runs -> Sinces]
  BY DEF Types, HistoryType, Histories, Sinces
<1>2. history.syncs[r] = [history.syncs[r] EXCEPT ![s] = history.syncs[r][s]]
  BY <1>1
<1>3. history.manual[r] = [history.manual[r] EXCEPT ![s] = history.manual[r][s]]
  BY <1>1
<1>4. history.syncs = [history.syncs EXCEPT ![r] = history.syncs[r]]
  BY <1>1
<1>5. history.manual = [history.manual EXCEPT ![r] = history.manual[r]]
  BY <1>1
<1>6. history.since = [history.since EXCEPT ![r] = history.since[r]]
  BY <1>1
<1> QED BY <1>2, <1>3, <1>4, <1>5, <1>6

(* mcbsp_checkpoint up to its barrier (mcbsp.c:214-228). *)
LEMMA BspCheckpointStep ==
  ASSUME LifeIInv, NEW t \in Threads, BspCheckpoint(t)
  PROVE  LifeIInv'
<1>0. /\ Types /\ Placed /\ thread[t].pc = "user" /\ thread[t].pc \in InRun
      /\ Arrive(t, "sl_condition", "manual") /\ "sl_condition" \in Arrays /\ "manual" \in Targets
      /\ machine' = machine /\ hp' = hp /\ heap' = heap /\ failing' = failing /\ fatal' = fatal
  BY DEF LifeIInv, InRun, Arrays, Targets, BspCheckpoint
<1>1. PICK r, s : r = thread[t].run /\ s = thread[t].id
  OBVIOUS
<1>2. /\ r \in Runs /\ hp \in BOOLEAN /\ init[r].ended \in BOOLEAN /\ Due(init[r]) \in BOOLEAN
      /\ SeatView(r, s).at = "user" /\ s \in Ids /\ StageOf(thread[t]) = "user"
  BY <1>0, <1>1, RunFacts, RunType DEF StageOf, Types
<1>3. PICK y, c, n, m : m = TRUE /\ y = history.syncs[r][s] /\ c = history.since[r] /\ n = history.settings
  OBVIOUS
<1>4. y \in Nat /\ c \in Sinces /\ n \in Nat /\ m \in BOOLEAN
  BY <1>0, <1>2, <1>3, OwnHistory
<1>5. PICK a : a = [history.manual EXCEPT ![r] = [history.manual[r] EXCEPT ![s] = TRUE]]
  OBVIOUS
<1>6. history' = [history EXCEPT !.manual = a]
  BY <1>1, <1>5 DEF BspCheckpoint
<1>7. history \in Histories
  BY <1>0 DEF Types, HistoryType
<1>8. history' = [history EXCEPT !.syncs = history.syncs, !.manual = a, !.since = history.since,
                                 !.settings = history.settings]
  BY <1>6, <1>7 DEF Histories
<1>9. HistoryTo(r, s, y, m, c, n)
  <2>1. /\ history.syncs = [history.syncs EXCEPT ![r] = [history.syncs[r] EXCEPT ![s] = y]]
        /\ history.since = [history.since EXCEPT ![r] = c]
    BY <1>0, <1>2, <1>3, SameHistoryEffect
  <2> QED BY <1>3, <1>5, <1>8, <2>1 DEF HistoryTo
<1>10. QuietHistory(t) /\ history'.syncs[r][s] = y /\ history'.manual[r][s] = m
  BY <1>0, <1>1, <1>2, <1>4, <1>9, HistoryEffect
<1>11. history'.since = history.since
  BY <1>6, <1>7 DEF Histories
<1>12. /\ Types' /\ Quiet(t) /\ thread'[t].pc = "wait" /\ thread'[t].on = "sl_condition"
       /\ thread'[t].then = "manual"
       /\ init'[r].ended = init[r].ended /\ SameData(init[r], init'[r])
       /\ r \in Runs /\ s \in ProcsOf(r) /\ Begun(r) /\ thread[t] \in Records
       /\ Arriving(SeatView(r, s), SeatView(r, s)', StageOf(thread'[t]), Plus("sl_condition", "sl_condition"),
                   Plus("sl_mid_condition", "sl_condition"), Plus("sl_end_condition", "sl_condition"))
  BY <1>0, <1>1, <1>10, ArriveParts
<1>13. StageOf(thread'[t]) = "to_manual"
  BY <1>12, WaitStage
<1>14. /\ SeatView(r, s)'.y = SeatView(r, s).y /\ SeatView(r, s)'.man = TRUE
       /\ SeatView(r, s).y \in ManualAt[r] /\ ~ SeatView(r, s).man
  BY <1>1, <1>3, <1>10 DEF SeatView, BspCheckpoint, CheckpointFirst
<1>15. Due(init'[r]) = Due(init[r]) /\ Lawful(t)
  BY <1>0, <1>1, <1>12, CarriedTypes, WaitIsLawful
<1>16. Carried(r, s)
  <2> SUFFICES ASSUME NEW b \in Bases, NEW V, NEW W, Moves(V, W, s, ProcsOf(r)),
                      V[s] = SeatView(r, s), W[s] = SeatView(r, s)',
                      Account(V, ProcsOf(r), b, hp, init[r].ended, Due(init[r]), ManualAt[r])
               PROVE  Account(W, ProcsOf(r), b, hp, init[r].ended, Due(init[r]), ManualAt[r])
    BY <1>12, <1>15 DEF Carried
  <2>1. /\ V[s].at = "user" /\ V[s].y \in ManualAt[r] /\ ~ V[s].man
        /\ Arriving(V[s], W[s], "to_manual", 1, 0, 0) /\ W[s].y = V[s].y /\ W[s].man
    BY <1>2, <1>12, <1>13, <1>14, PlusOf
  <2> QED BY <1>2, <2>1, ManualMove
<1>17. StageOf(thread[t]) \notin DueStages
  BY <1>2 DEF DueStages
<1> QED BY <1>1, <1>11, <1>12, <1>15, <1>16, <1>17, CarriedSameData

(* bsp_end sets the flag "ended" and waits (bsp.c:318-342). *)
LEMMA EndStep ==
  ASSUME LifeIInv, NEW t \in Threads, End(t)
  PROVE  LifeIInv'
<1>0. /\ Types /\ Placed /\ thread[t].pc = "user" /\ thread[t].pc \in InRun /\ thread[t].init_data = NoRun
      /\ thread' = [thread EXCEPT ![t] = Waiting(t, "sl_condition", "ended")]
      /\ "sl_condition" \in Arrays /\ "ended" \in Targets /\ thread[t] \in Records
      /\ machine' = machine /\ hp' = hp /\ heap' = heap /\ failing' = failing /\ fatal' = fatal
      /\ history' = history
  BY DEF LifeIInv, InRun, Arrays, Targets, End, Types, ThreadType
<1>1. PICK r, s : r = thread[t].run /\ s = thread[t].id
  OBVIOUS
<1>2. /\ r \in Runs /\ hp \in BOOLEAN /\ init[r].ended \in BOOLEAN /\ Due(init[r]) \in BOOLEAN
      /\ SeatView(r, s).at = "user" /\ StageOf(thread[t]) = "user" /\ Begun(r) /\ s \in ProcsOf(r)
  BY <1>0, <1>1, RunFacts DEF StageOf
<1>3. /\ init[r] \in RunOf(init[r].P) /\ init[r].P \in Nat /\ ProcsOf(r) = 0 .. init[r].P - 1
      /\ s \in 0 .. init[r].P - 1
  BY <1>0, <1>2, RunType DEF Types
<1>4. PICK i : i = [init[r] EXCEPT !.ended = TRUE]
  OBVIOUS
<1>5. /\ i \in RunOf(init[r].P) /\ SameShape(init[r], i) /\ SameData(init[r], i) /\ i.ended = TRUE
      /\ i.arrived = init[r].arrived /\ i.P = init[r].P
  BY <1>3, <1>4 DEF RunOf, SameShape, SameData
<1>6. PICK j : j = Announced(i, s, "sl_condition")
  OBVIOUS
<1>7. /\ j \in RunOf(init[r].P) /\ SameShape(i, j) /\ SameData(i, j) /\ j.ended = TRUE
      /\ OneArrival(i, j, s, "sl_condition")
  BY <1>0, <1>3, <1>5, <1>6, AnnouncedEffect
<1>8. SameShape(init[r], j) /\ SameData(init[r], j)
  BY <1>5, <1>7 DEF SameShape, SameData
<1>9. /\ \A a \in Arrays, q \in ProcsOf(r) : a # "sl_condition" \/ q # s => j.arrived[a][q] = init[r].arrived[a][q]
      /\ j.arrived["sl_condition"][s] = init[r].arrived["sl_condition"][s] + 1
      /\ \A a \in Arrays : init[r].arrived[a][s] \in Nat
  <2>1. \A a \in Arrays : init[r].arrived[a][s] \in Nat
    <3>1. init[r].arrived \in [Arrays -> [0 .. init[r].P - 1 -> Nat]]
      BY <1>3, RunFields
    <3> QED BY <1>3, <3>1
  <2>2. i.arrived = init[r].arrived /\ ProcsOf(r) = 0 .. i.P - 1
    BY <1>3, <1>5
  <2> QED BY <1>7, <2>1, <2>2 DEF OneArrival
<1>10. init' = [init EXCEPT ![r] = j]
  BY <1>1, <1>4, <1>6 DEF End
<1>11. PICK x : x = Waiting(t, "sl_condition", "ended")
  OBVIOUS
<1>12. x \in Records
  BY <1>0, <1>11, WaitingType DEF Types, ThreadType
<1>13. /\ x.pc = "wait" /\ x.on = "sl_condition" /\ x.then = "ended" /\ SameKeys(thread[t], x)
  BY <1>0, <1>11 DEF Waiting, Records, SameKeys
<1>14. LocalOK(x) /\ x.pc \in InRun
  BY <1>0, <1>13 DEF LocalOK, SameKeys, InRun
<1>15. QuietHistory(t) /\ history'.since = history.since /\ MachineType'
  BY <1>0, SameHistory DEF Types, MachineType
<1>16. QuietTo(t, x, j)
  BY <1>0, <1>1, <1>7, <1>8, <1>9, <1>10, <1>11, <1>12, <1>13, <1>14, <1>15 DEF QuietTo
<1>17. Types' /\ Quiet(t) /\ thread'[t] = x /\ init'[r] = j
  BY <1>0, <1>1, <1>16, QuietParts
<1>18. StageOf(thread'[t]) = "to_ended" /\ Lawful(t)
  BY <1>13, <1>17, WaitStage, WaitIsLawful
<1>19. SeatView(r, s)'.at = "to_ended"
  BY <1>0, <1>1, <1>17, <1>18, QuietViews
<1>20. Step(SeatView(r, s), SeatView(r, s)', "to_ended", 1, 0, 0)
  <2>1. /\ SeatView(r, s)'.A = SeatView(r, s).A + 1
        /\ SeatView(r, s)'.M = SeatView(r, s).M /\ SeatView(r, s)'.E = SeatView(r, s).E
        /\ SeatView(r, s)'.y = SeatView(r, s).y /\ SeatView(r, s)'.man = SeatView(r, s).man
    BY <1>0, <1>2, <1>9, <1>17 DEF SeatView, Arrays
  <2>2. SeatView(r, s).M \in Nat /\ SeatView(r, s).E \in Nat
    BY <1>9 DEF SeatView, Arrays
  <2> QED BY <1>19, <2>1, <2>2 DEF Step, Arriving
<1>21. Due(init'[r]) = Due(init[r]) /\ SameData(init[r], init'[r])
  BY <1>0, <1>1, <1>8, <1>17, CarriedTypes
<1>22. ~ Wants(SeatView(r, s), ManualAt[r])
  BY <1>1 DEF End, CheckpointFirst, SeatView, Wants
<1>23. Carried(r, s)
  <2> SUFFICES ASSUME NEW b \in Bases, NEW V, NEW W, Moves(V, W, s, ProcsOf(r)),
                      V[s] = SeatView(r, s), W[s] = SeatView(r, s)',
                      Account(V, ProcsOf(r), b, hp, init[r].ended, Due(init[r]), ManualAt[r])
               PROVE  Account(W, ProcsOf(r), b, hp, init'[r].ended, Due(init[r]), ManualAt[r])
    BY <1>7, <1>17, <1>21 DEF Carried
  <2>1. V[s].at = "user" /\ ~ Wants(V[s], ManualAt[r]) /\ Step(V[s], W[s], "to_ended", 1, 0, 0)
    BY <1>2, <1>20, <1>22
  <2>2. PICK h, en, du, ma, S :
          h = hp /\ en = init[r].ended /\ du = Due(init[r]) /\ ma = ManualAt[r] /\ S = ProcsOf(r)
    OBVIOUS
  <2>3. h \in BOOLEAN /\ en \in BOOLEAN /\ du \in BOOLEAN
    BY <1>2, <2>2
  <2>4. Moves(V, W, s, S) /\ Account(V, S, b, h, en, du, ma)
    BY <2>2
  <2>5. V[s].at = "user" /\ ~ Wants(V[s], ma) /\ Step(V[s], W[s], "to_ended", 1, 0, 0)
    BY <2>1, <2>2
  <2>6. Account(W, S, b, h, TRUE, du, ma)
    BY <2>3, <2>4, <2>5, EndMove, ZenonT(60)
  <2>7. init'[r].ended = TRUE
    BY <1>7, <1>17
  <2> QED BY <2>2, <2>6, <2>7
<1>24. StageOf(thread[t]) \notin DueStages
  BY <1>2 DEF DueStages
<1> QED BY <1>1, <1>15, <1>17, <1>18, <1>21, <1>23, <1>24, CarriedSameData

(* Process 0 starts the checkpoint and resets the count (bsp.c:1019-1031). *)
LEMMA StartCheckpointStep ==
  ASSUME LifeIInv, NEW t \in Threads, StartCheckpoint(t)
  PROVE  LifeIInv'
<1>0. /\ Types /\ Placed /\ thread[t].pc \in {"due", "manual"} /\ thread[t].pc \in InRun /\ thread[t].id = 0
      /\ thread' = [thread EXCEPT ![t].pc = "checkpointing"] /\ thread[t] \in Records
      /\ machine' = machine /\ hp' = hp /\ heap' = heap /\ failing' = failing /\ fatal' = fatal
      /\ thread \in [Threads -> Records]
  BY DEF LifeIInv, InRun, StartCheckpoint, Types, ThreadType
<1>1. PICK r, s : r = thread[t].run /\ s = thread[t].id
  OBVIOUS
<1>2. /\ r \in Runs /\ hp \in BOOLEAN /\ init[r].ended \in BOOLEAN /\ Due(init[r]) \in BOOLEAN
      /\ SeatView(r, s).at = thread[t].pc /\ StageOf(thread[t]) = thread[t].pc /\ Begun(r) /\ s \in ProcsOf(r)
      /\ Stage(r, s) = thread[t].pc /\ s \in Ids
  BY <1>0, <1>1, RunFacts, RunType DEF StageOf, Types
<1>3. init[r] \in RunOf(init[r].P) /\ init[r].P \in Nat /\ ProcsOf(r) = 0 .. init[r].P - 1
  BY <1>0, <1>2, RunType DEF Types
<1>4. PICK x : x = [thread[t] EXCEPT !.pc = "checkpointing"]
  OBVIOUS
<1>5. /\ x \in Records /\ x.pc = "checkpointing" /\ SameKeys(thread[t], x) /\ x.id = 0
  BY <1>0, <1>4 DEF Records, PCs, SameKeys
<1>6. LocalOK(x) /\ x.pc \in InRun /\ thread' = [thread EXCEPT ![t] = x]
  BY <1>0, <1>4, <1>5 DEF LocalOK, InRun
<1>7. PICK k : k = IF thread[t].pc = "due" THEN 0 ELSE init[r].skipped_checkpoints
  OBVIOUS
<1>8. PICK j : j = [init[r] EXCEPT !.skipped_checkpoints = k]
  OBVIOUS
<1>9. k \in Nat
  BY <1>3, <1>7, RunFields
<1>10. /\ j \in RunOf(init[r].P) /\ SameShape(init[r], j) /\ j.arrived = init[r].arrived /\ j.ended = init[r].ended
       /\ j.skipped_checkpoints = k /\ j.no_cp = init[r].no_cp /\ j.safe_cp = init[r].safe_cp
       /\ j.cp_f = init[r].cp_f /\ j.safe_cp_f = init[r].safe_cp_f
  BY <1>3, <1>8, <1>9 DEF RunOf, SameShape
<1>11. init' = [init EXCEPT ![r] = j]
  BY <1>0, <1>1, <1>7, <1>8 DEF StartCheckpoint
<1>12. PICK c : c = IF thread[t].pc = "due" THEN [history.since[r] EXCEPT !.syncs = 0, !.failing = 0]
                                            ELSE history.since[r]
  OBVIOUS
<1>13. PICK y, m, n : y = history.syncs[r][s] /\ m = history.manual[r][s] /\ n = history.settings
  OBVIOUS
<1>14. y \in Nat /\ m \in BOOLEAN /\ n \in Nat /\ c \in Sinces /\ history.since[r] \in Sinces
  BY <1>0, <1>2, <1>12, <1>13, OwnHistory DEF Sinces
<1>15. HistoryTo(r, s, y, m, c, n)
  <2>1. history \in Histories /\ history.since \in [Runs -> Sinces]
    BY <1>0 DEF Types, HistoryType, Histories, Sinces
  <2>2. PICK cc : cc = [history.since EXCEPT ![r] = c]
    OBVIOUS
  <2>3. history' = [history EXCEPT !.since = cc]
    <3>1. CASE thread[t].pc = "due"
      BY <1>1, <1>12, <2>2, <3>1 DEF StartCheckpoint
    <3>2. CASE thread[t].pc # "due"
      <4>1. cc = history.since /\ history' = history
        BY <1>2, <1>12, <2>1, <2>2, <3>2 DEF StartCheckpoint
      <4> QED BY <2>1, <4>1 DEF Histories
    <3> QED BY <3>1, <3>2
  <2>4. history' = [history EXCEPT !.syncs = history.syncs, !.manual = history.manual, !.since = cc,
                                   !.settings = history.settings]
    BY <2>1, <2>3 DEF Histories
  <2>5. /\ history.syncs = [history.syncs EXCEPT ![r] = [history.syncs[r] EXCEPT ![s] = y]]
        /\ history.manual = [history.manual EXCEPT ![r] = [history.manual[r] EXCEPT ![s] = m]]
    BY <1>0, <1>2, <1>13, SameHistoryEffect
  <2> QED BY <1>13, <2>2, <2>4, <2>5 DEF HistoryTo
<1>16. /\ QuietHistory(t) /\ history'.syncs[r][s] = y /\ history'.manual[r][s] = m /\ history'.since[r] = c
  BY <1>0, <1>1, <1>2, <1>14, <1>15, HistoryEffect
<1>17. QuietTo(t, x, j)
  <2>1. MachineType'
    BY <1>0 DEF Types, MachineType
  <2> QED BY <1>0, <1>1, <1>5, <1>6, <1>10, <1>11, <1>16, <2>1 DEF QuietTo
<1>18. Types' /\ Quiet(t) /\ thread'[t] = x /\ init'[r] = j
  BY <1>0, <1>1, <1>17, QuietParts
<1>19. StageOf(thread'[t]) = "checkpointing"
  BY <1>5, <1>18 DEF StageOf
<1>20. SeatView(r, s)'.at = "checkpointing"
  BY <1>0, <1>1, <1>18, <1>19, QuietViews
<1>21. Step(SeatView(r, s), SeatView(r, s)', "checkpointing", 0, 0, 0)
  <2>1. /\ SeatView(r, s)'.A = SeatView(r, s).A
        /\ SeatView(r, s)'.M = SeatView(r, s).M /\ SeatView(r, s)'.E = SeatView(r, s).E
        /\ SeatView(r, s)'.y = SeatView(r, s).y /\ SeatView(r, s)'.man = SeatView(r, s).man
    BY <1>10, <1>13, <1>16, <1>18 DEF SeatView
  <2>2. SeatView(r, s).A \in Nat /\ SeatView(r, s).M \in Nat /\ SeatView(r, s).E \in Nat
    <3>1. SeatView(r, s) \in Views
      BY <1>0, <1>2, ViewType
    <3> QED BY <3>1, ViewFields
  <2> QED BY <1>20, <2>1, <2>2 DEF Step, Arriving
<1>22. Lawful(t)
  BY <1>0, <1>1, <1>2 DEF Lawful, Aborted
<1>23. /\ Due(j) \in BOOLEAN /\ init'[r] = j /\ init'[r].ended = init[r].ended
  BY <1>10, <1>18, DueIsBoolean
<1>24. thread[t].pc = "manual" => SameData(init[r], j) /\ c = history.since[r]
  BY <1>7, <1>10, <1>12 DEF SameData
<1>25. thread[t].pc = "manual" => Due(j) = Due(init[r])
  BY <1>24 DEF SameData, Due, CpFrequency
<1>26. Carried(r, s)
  <2> SUFFICES ASSUME NEW b \in Bases, NEW V, NEW W, Moves(V, W, s, ProcsOf(r)),
                      V[s] = SeatView(r, s), W[s] = SeatView(r, s)',
                      Account(V, ProcsOf(r), b, hp, init[r].ended, Due(init[r]), ManualAt[r])
               PROVE  Account(W, ProcsOf(r), b, hp, init[r].ended, Due(j), ManualAt[r])
    BY <1>23 DEF Carried
  <2>1. V[s].at = thread[t].pc /\ Step(V[s], W[s], "checkpointing", 0, 0, 0)
    BY <1>2, <1>21
  <2>2. CASE thread[t].pc = "due"
    BY <1>2, <1>23, <2>1, <2>2, StartDueMove
  <2>3. CASE thread[t].pc = "manual"
    <3>1. Account(W, ProcsOf(r), b, hp, init[r].ended, Due(init[r]), ManualAt[r])
      BY <1>2, <2>1, <2>3, StartManualMove
    <3> QED BY <1>25, <2>3, <3>1
  <2> QED BY <1>0, <2>2, <2>3
<1>27. DataInv'
  <2>1. DataOf(r) /\ DataInv
    BY <1>2 DEF LifeIInv, DataInv
  <2>2. Stage(r, 0)' = "checkpointing" /\ Stage(r, 0) = thread[t].pc
    BY <1>0, <1>1, <1>2, <1>18, <1>19, QuietStages
  <2>3. /\ (Begun(r)' <=> Begun(r)) /\ (Live(r)' <=> Live(r)) /\ ProcsOf(r)' = ProcsOf(r)
    BY <1>0, <1>2, <1>18, QuietShape
  <2>4. DataOf(r)'
    <3>1. CASE thread[t].pc = "manual"
      BY <1>2, <1>16, <1>18, <1>24, <1>25, <2>1, <2>2, <2>3, <3>1 DEF DataOf, SameData
    <3>2. CASE thread[t].pc = "due"
      <4>1. c.syncs = 0 /\ c.failing = 0 /\ c.touched = history.since[r].touched /\ k = 0
        BY <1>7, <1>12, <1>14, <3>2 DEF Sinces
      <4>2. ~ Due(j)
        <5>1. CpFrequency(j) \in Nat
          BY <1>10, RunFields DEF CpFrequency
        <5> QED BY <1>10, <4>1, <5>1 DEF Due
      <4>3. \A f \in Nat : f > 0 => 0 % f >= 0
        OBVIOUS
      <4>4. j.safe_cp_f \in Nat /\ (j.safe_cp_f > 0 => c.failing <= k % j.safe_cp_f)
        BY <1>10, <4>1, <4>3, RunFields
      <4>5. ~ c.touched => ~ j.no_cp /\ (j.safe_cp => j.safe_cp_f > 0)
        BY <1>2, <1>10, <2>1, <4>1 DEF DataOf
      <4> QED BY <1>2, <1>10, <1>16, <1>18, <2>3, <4>1, <4>2, <4>4, <4>5 DEF DataOf
    <3> QED BY <1>0, <3>1, <3>2
  <2> QED BY <1>0, <1>1, <1>18, <2>1, <2>4, QuietData
<1> QED BY <1>1, <1>18, <1>22, <1>26, <1>27, CarriedStep

(* What process 0 does to the counts on entry of bsp_sync
   (mcbsp.c:752-827). *)
LEMMA StatsEffect ==
  ASSUME NEW p, NEW i \in RunOf(p), NEW f \in BOOLEAN, NEW j, j = UpdateCheckpointStats(i, f)
  PROVE  /\ j \in RunOf(p) /\ SameShape(i, j) /\ j.arrived = i.arrived /\ j.ended = i.ended
         /\ j.no_cp = i.no_cp /\ j.cp_f = i.cp_f /\ j.safe_cp_f = i.safe_cp_f
         /\ j.skipped_checkpoints = IF i.no_cp THEN i.skipped_checkpoints ELSE i.skipped_checkpoints + 1
         /\ j.safe_cp = IF i.safe_cp_f > 0 /\ j.skipped_checkpoints % i.safe_cp_f = 0 THEN f ELSE i.safe_cp
<1>1. PICK k : k = IF i.no_cp THEN i.skipped_checkpoints ELSE i.skipped_checkpoints + 1
  OBVIOUS
<1>2. k \in Nat
  BY <1>1, RunFields
<1>3. PICK i1 : i1 = [i EXCEPT !.skipped_checkpoints = k]
  OBVIOUS
<1>4. /\ i1 \in RunOf(p) /\ SameShape(i, i1) /\ i1.arrived = i.arrived /\ i1.ended = i.ended
      /\ i1.no_cp = i.no_cp /\ i1.cp_f = i.cp_f /\ i1.safe_cp_f = i.safe_cp_f
      /\ i1.skipped_checkpoints = k /\ i1.safe_cp = i.safe_cp
  BY <1>2, <1>3 DEF RunOf, SameShape
<1>5. i1 = IF i.no_cp THEN i ELSE [i EXCEPT !.skipped_checkpoints = @ + 1]
  BY <1>1, <1>3 DEF RunOf
<1>6. j = LookForFailure(i1, f)
  BY <1>5 DEF UpdateCheckpointStats
<1>7. CASE i1.safe_cp_f > 0 /\ i1.skipped_checkpoints % i1.safe_cp_f = 0
  <2>1. j = [i1 EXCEPT !.safe_cp = f]
    BY <1>6, <1>7 DEF LookForFailure
  <2>2. /\ j \in RunOf(p) /\ SameShape(i1, j) /\ j.arrived = i1.arrived /\ j.ended = i1.ended
        /\ j.no_cp = i1.no_cp /\ j.cp_f = i1.cp_f /\ j.safe_cp_f = i1.safe_cp_f
        /\ j.skipped_checkpoints = i1.skipped_checkpoints /\ j.safe_cp = f
    BY <1>4, <2>1 DEF RunOf, SameShape
  <2> QED BY <1>1, <1>4, <1>7, <2>2 DEF SameShape
<1>8. CASE ~ (i1.safe_cp_f > 0 /\ i1.skipped_checkpoints % i1.safe_cp_f = 0)
  <2>1. j = i1
    BY <1>6, <1>8 DEF LookForFailure
  <2> QED BY <1>1, <1>4, <1>8, <2>1
<1> QED BY <1>7, <1>8

(* bsp_sync up to its first barrier (bsp.c:538-637). *)
LEMMA SyncStep ==
  ASSUME LifeIInv, NEW t \in Threads, Sync(t)
  PROVE  LifeIInv'
<1>0. /\ Types /\ Placed /\ thread[t].pc = "user" /\ thread[t].pc \in InRun
      /\ thread' = [thread EXCEPT ![t] = Waiting(t, "sl_condition", "synced")]
      /\ "sl_condition" \in Arrays /\ "synced" \in Targets /\ thread[t] \in Records
      /\ machine' = machine /\ hp' = hp /\ heap' = heap /\ failing' = failing /\ fatal' = fatal
  BY DEF LifeIInv, InRun, Arrays, Targets, Sync, Types, ThreadType
<1>1. PICK r, s : r = thread[t].run /\ s = thread[t].id
  OBVIOUS
<1>2. /\ r \in Runs /\ hp \in BOOLEAN /\ init[r].ended \in BOOLEAN /\ Due(init[r]) \in BOOLEAN
      /\ SeatView(r, s).at = "user" /\ StageOf(thread[t]) = "user" /\ Begun(r) /\ s \in ProcsOf(r)
      /\ Stage(r, s) = "user" /\ s \in Ids
  BY <1>0, <1>1, RunFacts, RunType DEF StageOf, Types
<1>3. /\ init[r] \in RunOf(init[r].P) /\ init[r].P \in Nat /\ ProcsOf(r) = 0 .. init[r].P - 1
      /\ s \in 0 .. init[r].P - 1 /\ failing \in BOOLEAN
  BY <1>0, <1>2, RunType DEF Types
<1>4. PICK i : i = IF s = 0 THEN UpdateCheckpointStats(init[r], failing) ELSE init[r]
  OBVIOUS
<1>5. /\ i \in RunOf(init[r].P) /\ SameShape(init[r], i) /\ i.arrived = init[r].arrived
      /\ i.ended = init[r].ended /\ i.P = init[r].P
  BY <1>3, <1>4, StatsEffect DEF SameShape
<1>6. PICK j : j = Announced(i, s, "sl_condition")
  OBVIOUS
<1>7. /\ j \in RunOf(init[r].P) /\ SameShape(i, j) /\ SameData(i, j) /\ j.ended = i.ended
      /\ OneArrival(i, j, s, "sl_condition")
  BY <1>0, <1>3, <1>5, <1>6, AnnouncedEffect
<1>8. SameShape(init[r], j)
  BY <1>5, <1>7 DEF SameShape
<1>9. /\ \A a \in Arrays, q \in ProcsOf(r) : a # "sl_condition" \/ q # s => j.arrived[a][q] = init[r].arrived[a][q]
      /\ j.arrived["sl_condition"][s] = init[r].arrived["sl_condition"][s] + 1
      /\ \A a \in Arrays : init[r].arrived[a][s] \in Nat
  BY <1>3, <1>5, <1>7, RunFields DEF OneArrival
<1>10. init' = [init EXCEPT ![r] = j]
  BY <1>1, <1>4, <1>6 DEF Sync, Run
<1>11. PICK x : x = Waiting(t, "sl_condition", "synced")
  OBVIOUS
<1>12. x \in Records
  BY <1>0, <1>11, WaitingType DEF Types, ThreadType
<1>13. /\ x.pc = "wait" /\ x.on = "sl_condition" /\ x.then = "synced" /\ SameKeys(thread[t], x)
  BY <1>0, <1>11 DEF Waiting, Records, SameKeys
<1>14. LocalOK(x) /\ x.pc \in InRun
  BY <1>0, <1>13 DEF LocalOK, SameKeys, InRun
<1>15. PICK y, m, n, h : y = history.syncs[r][s] + 1 /\ m = FALSE /\ n = history.settings /\ h = history.since[r]
  OBVIOUS
<1>16. PICK counts \in BOOLEAN : counts <=> s = 0 /\ ~ init[r].no_cp
  OBVIOUS
<1>17. PICK c : c = [h EXCEPT !.syncs = IF counts THEN h.syncs + 1 ELSE h.syncs,
                              !.failing = IF ~ counts THEN h.failing ELSE IF failing THEN h.failing + 1 ELSE 0]
  OBVIOUS
<1>18. /\ y \in Nat /\ m \in BOOLEAN /\ n \in Nat /\ h \in Sinces /\ history.syncs[r][s] \in Nat
       /\ h.syncs \in Nat /\ h.failing \in Nat
  <2>1. /\ history.syncs[r][s] \in Nat /\ history.since[r] \in Sinces /\ history.settings \in Nat
    BY <1>0, <1>2, OwnHistory
  <2>2. m \in BOOLEAN
    BY <1>15
  <2> QED BY <1>15, <2>1, <2>2 DEF Sinces
<1>a. PICK k1, k2 : /\ k1 = IF counts THEN h.syncs + 1 ELSE h.syncs
                    /\ k2 = IF ~ counts THEN h.failing ELSE IF failing THEN h.failing + 1 ELSE 0
  OBVIOUS
<1>b. k1 \in Nat /\ k2 \in Nat
  BY <1>18, <1>a
<1>19. /\ c \in Sinces /\ c.syncs = (IF counts THEN h.syncs + 1 ELSE h.syncs) /\ c.touched = h.touched
       /\ c.failing = (IF ~ counts THEN h.failing ELSE IF failing THEN h.failing + 1 ELSE 0)
  <2>1. c = [h EXCEPT !.syncs = k1, !.failing = k2]
    BY <1>17, <1>a
  <2>2. c \in Sinces /\ c.syncs = k1 /\ c.failing = k2 /\ c.touched = h.touched
    BY <1>18, <1>b, <2>1 DEF Sinces
  <2> QED BY <1>a, <2>2
<1>20. HistoryTo(r, s, y, m, c, n)
  <2>1. history \in Histories /\ history.since \in [Runs -> Sinces]
    BY <1>0 DEF Types, HistoryType, Histories, Sinces
  <2>2. PICK aa, bb, cc :
          /\ aa = [history.syncs EXCEPT ![r] = [history.syncs[r] EXCEPT ![s] = y]]
          /\ bb = [history.manual EXCEPT ![r] = [history.manual[r] EXCEPT ![s] = m]]
          /\ cc = [history.since EXCEPT ![r] = c]
    OBVIOUS
  <2>3. PICK d, dd : d = [h EXCEPT !.syncs = IF counts THEN h.syncs + 1 ELSE h.syncs]
                     /\ dd = [history.since EXCEPT ![r] = d]
    OBVIOUS
  <2>4. d \in Sinces /\ dd[r] = d /\ d.failing = h.failing
    BY <1>2, <1>18, <2>1, <2>3 DEF Sinces
  <2>5. c = [d EXCEPT !.failing = IF ~ counts THEN d.failing ELSE IF failing THEN d.failing + 1 ELSE 0]
    BY <1>17, <1>18, <2>3, <2>4 DEF Sinces
  <2>6. cc = [dd EXCEPT ![r] = c]
    BY <1>2, <2>1, <2>2, <2>3
  <2>7. history' = [history EXCEPT !.syncs = aa, !.manual = bb, !.since = cc]
    <3>1. history' = [history EXCEPT !.syncs[r][s] = @ + 1, !.manual[r][s] = FALSE,
             !.since[r].syncs = IF counts THEN @ + 1 ELSE @,
             !.since[r].failing = IF ~ counts THEN @ ELSE IF failing THEN @ + 1 ELSE 0]
      BY <1>1, <1>16 DEF Sync, Run
    <3>2. history' = [history EXCEPT !.syncs = aa, !.manual = bb, !.since[r] = d,
             !.since[r].failing = IF ~ counts THEN @ ELSE IF failing THEN @ + 1 ELSE 0]
      BY <1>15, <2>2, <2>3, <3>1
    <3>3. PICK k3 : k3 = IF ~ counts THEN d.failing ELSE IF failing THEN d.failing + 1 ELSE 0
      OBVIOUS
    <3>4. history' = [history EXCEPT !.syncs = aa, !.manual = bb, !.since = dd, !.since[r].failing = k3]
      BY <1>15, <2>3, <2>4, <3>2, <3>3
    <3>5. history' = [history EXCEPT !.syncs = aa, !.manual = bb, !.since = dd, !.since[r] = [d EXCEPT !.failing = k3]]
      BY <2>4, <3>4
    <3>6. history' = [history EXCEPT !.syncs = aa, !.manual = bb, !.since = dd, !.since[r] = c]
      BY <2>5, <3>3, <3>5
    <3> QED BY <2>6, <3>6
  <2>8. history' = [history EXCEPT !.syncs = aa, !.manual = bb, !.since = cc, !.settings = history.settings]
    BY <2>1, <2>7 DEF Histories
  <2> QED BY <1>15, <2>2, <2>8 DEF HistoryTo
<1>21. /\ QuietHistory(t) /\ history'.syncs[r][s] = y /\ history'.manual[r][s] = m /\ history'.since[r] = c
  BY <1>0, <1>1, <1>2, <1>18, <1>19, <1>20, HistoryEffect
<1>22. QuietTo(t, x, j)
  <2>1. MachineType'
    BY <1>0 DEF Types, MachineType
  <2> QED
    BY <1>0, <1>1, <1>7, <1>8, <1>9, <1>10, <1>11, <1>12, <1>13, <1>14, <1>21, <2>1 DEF QuietTo
<1>23. Types' /\ Quiet(t) /\ thread'[t] = x /\ init'[r] = j
  BY <1>0, <1>1, <1>22, QuietParts
<1>24. StageOf(thread'[t]) = "to_synced" /\ Lawful(t)
  BY <1>13, <1>23, WaitStage, WaitIsLawful
<1>25. SeatView(r, s)'.at = "to_synced"
  BY <1>0, <1>1, <1>23, <1>24, QuietViews
<1>26. /\ Arriving(SeatView(r, s), SeatView(r, s)', "to_synced", 1, 0, 0)
       /\ SeatView(r, s)'.y = SeatView(r, s).y + 1 /\ ~ SeatView(r, s)'.man
  <2>1. /\ SeatView(r, s)'.A = SeatView(r, s).A + 1
        /\ SeatView(r, s)'.M = SeatView(r, s).M /\ SeatView(r, s)'.E = SeatView(r, s).E
    BY <1>2, <1>9, <1>23 DEF SeatView, Arrays
  <2>2. SeatView(r, s).M \in Nat /\ SeatView(r, s).E \in Nat
    BY <1>9 DEF SeatView, Arrays
  <2>3. SeatView(r, s)'.y = SeatView(r, s).y + 1 /\ SeatView(r, s)'.man = m
    BY <1>15, <1>21 DEF SeatView
  <2> QED BY <1>15, <1>25, <2>1, <2>2, <2>3 DEF Arriving
<1>27. ~ Wants(SeatView(r, s), ManualAt[r])
  BY <1>1 DEF Sync, CheckpointFirst, SeatView, Wants
<1>28. Carried(r, s)
  <2> SUFFICES ASSUME NEW b \in Bases, NEW V, NEW W, Moves(V, W, s, ProcsOf(r)),
                      V[s] = SeatView(r, s), W[s] = SeatView(r, s)',
                      Account(V, ProcsOf(r), b, hp, init[r].ended, Due(init[r]), ManualAt[r])
               PROVE  Account(W, ProcsOf(r), b, hp, init[r].ended, Due(j), ManualAt[r])
    BY <1>5, <1>7, <1>23 DEF Carried
  <2>1. /\ V[s].at = "user" /\ ~ Wants(V[s], ManualAt[r]) /\ Arriving(V[s], W[s], "to_synced", 1, 0, 0)
        /\ W[s].y = V[s].y + 1 /\ ~ W[s].man
    BY <1>2, <1>26, <1>27
  <2>2. PICK h1, en, du, ma, S, d2 : /\ h1 = hp /\ en = init[r].ended /\ du = Due(init[r])
                                     /\ ma = ManualAt[r] /\ S = ProcsOf(r) /\ d2 = Due(j)
    OBVIOUS
  <2>3. h1 \in BOOLEAN /\ en \in BOOLEAN /\ du \in BOOLEAN /\ d2 \in BOOLEAN
    BY <1>2, <2>2, DueIsBoolean
  <2>4. Account(W, S, b, h1, en, d2, ma)
    BY <2>1, <2>2, <2>3, SyncMove
  <2> QED BY <2>2, <2>4
<1>29. DataInv'
  <2>1. DataOf(r) /\ DataInv /\ InLiveRuns(t)
    BY <1>2 DEF LifeIInv, DataInv, HeapInv
  <2>2. /\ (Begun(r)' <=> Begun(r)) /\ (Live(r)' <=> Live(r)) /\ ProcsOf(r)' = ProcsOf(r)
    BY <1>0, <1>2, <1>23, QuietShape
  <2>3. DataOf(r)'
    <3>1. CASE s # 0
      <4>1. c.syncs = h.syncs /\ c.failing = h.failing /\ c.touched = h.touched /\ SameData(init[r], j)
        BY <1>4, <1>7, <1>16, <1>19, <3>1
      <4>2. Due(j) = Due(init[r])
        BY <4>1 DEF SameData, Due, CpFrequency
      <4>3. Stage(r, 0)' = Stage(r, 0)
        <5>1. 0 \in ProcsOf(r)
          BY <1>3
        <5> QED BY <1>0, <1>1, <1>2, <1>23, <3>1, <5>1, QuietStages
      <4> QED BY <1>2, <1>15, <1>21, <1>23, <2>1, <2>2, <4>1, <4>2, <4>3 DEF DataOf, SameData
    <3>2. CASE s = 0
      <4>1. Stage(r, 0)' = "to_synced" /\ Stage(r, 0) = "user" /\ Live(r)
        <5>1. Live(r)
          BY <1>0, <1>1, <2>1, Constants DEF InLiveRuns, Placed, ThreadOK, InRun
        <5>2. Stage(r, s)' = "to_synced"
          BY <1>0, <1>1, <1>23, <1>24, QuietStages
        <5> QED BY <1>2, <3>2, <5>1, <5>2
      <4>2. PICK k, f : k = init[r].skipped_checkpoints /\ f = init[r].safe_cp_f
        OBVIOUS
      <4>3. k \in Nat /\ f \in Nat
        BY <1>3, <4>2, RunFields
      <4>4. /\ j.no_cp = init[r].no_cp /\ j.cp_f = init[r].cp_f /\ j.safe_cp_f = f
            /\ j.skipped_checkpoints = IF init[r].no_cp THEN k ELSE k + 1
            /\ j.safe_cp = IF f > 0 /\ j.skipped_checkpoints % f = 0 THEN failing ELSE init[r].safe_cp
        BY <1>3, <1>4, <1>7, <3>2, <4>2, StatsEffect DEF SameData
      <4>5. c.syncs = j.skipped_checkpoints
        <5>1. h.syncs = k
          BY <1>2, <1>15, <2>1, <4>2 DEF DataOf
        <5> QED BY <1>16, <1>19, <3>2, <4>4, <5>1
      <4>6. ASSUME ~ h.touched
            PROVE  /\ ~ j.no_cp /\ (j.safe_cp => f > 0)
                   /\ f > 0 => Due(j) \/ c.failing <= j.skipped_checkpoints % f
        <5>1. /\ ~ init[r].no_cp /\ (init[r].safe_cp => f > 0) /\ ~ Due(init[r])
              /\ f > 0 => h.failing <= k % f
          BY <1>2, <1>15, <2>1, <4>1, <4>2, <4>6 DEF DataOf
        <5>2. j.skipped_checkpoints = k + 1 /\ counts
          BY <1>16, <3>2, <4>4, <5>1
        <5>3. c.failing = IF failing THEN h.failing + 1 ELSE 0
          BY <1>19, <5>2
        <5>4. h.failing \in Nat
          BY <1>18 DEF Sinces
        <5>5. ASSUME f > 0 PROVE Due(j) \/ c.failing <= (k + 1) % f
          <6>1. /\ k % f \in Nat /\ ((k + 1) % f = 0 => k + 1 >= f)
                /\ (k + 1) % f # 0 => (k + 1) % f = (k % f) + 1
            BY <4>3, <5>5, NextCount
          <6>2. CASE (k + 1) % f # 0
            BY <5>1, <5>3, <5>4, <5>5, <6>1, <6>2
          <6>3. CASE (k + 1) % f = 0 /\ failing
            <7>1. j.safe_cp /\ CpFrequency(j) = f
              BY <1>3, <4>4, <5>2, <5>5, <6>3 DEF CpFrequency
            <7> QED BY <4>4, <5>1, <5>2, <5>5, <6>1, <6>3, <7>1 DEF Due
          <6>4. CASE (k + 1) % f = 0 /\ ~ failing
            BY <5>3, <6>4
          <6> QED BY <6>2, <6>3, <6>4
        <5>6. j.safe_cp => f > 0
          BY <4>4, <5>1
        <5> QED BY <4>4, <5>1, <5>2, <5>5, <5>6
      <4> QED BY <1>2, <1>15, <1>19, <1>21, <1>23, <2>2, <4>1, <4>4, <4>5, <4>6 DEF DataOf
    <3> QED BY <3>1, <3>2
  <2> QED BY <1>0, <1>1, <1>23, <2>1, <2>3, QuietData
<1> QED BY <1>1, <1>23, <1>24, <1>28, <1>29, CarriedStep

(* The frequencies of a machine. *)
MachineInfo == [cp_f : Nat, safe_cp_f : Nat, SCFset : BOOLEAN]

(* A setting made inside a run keeps the invariant; its properties are
   then touched. *)
LEMMA SettingStep ==
  ASSUME LifeIInv, NEW t \in Threads, thread[t].pc = "user", NEW r, r = thread[t].run,
         NEW m1 \in MachineInfo, NEW j \in RunOf(init[r].P), Setting(t, m1, j),
         SameShape(init[r], j), j.arrived = init[r].arrived, j.ended = init[r].ended,
         j.skipped_checkpoints = init[r].skipped_checkpoints
  PROVE  LifeIInv'
<1>0. /\ Types /\ Placed /\ thread[t].pc \in InRun /\ thread[t] \in Records
      /\ thread' = thread /\ hp' = hp /\ heap' = heap /\ failing' = failing /\ fatal' = fatal
      /\ thread \in [Threads -> Records] /\ init' = [init EXCEPT ![r] = j]
      /\ machine' = [machine EXCEPT ![t] = m1]
  BY DEF LifeIInv, InRun, Setting, Types, ThreadType
<1>1. PICK s : s = thread[t].id
  OBVIOUS
<1>2. /\ r \in Runs /\ hp \in BOOLEAN /\ init[r].ended \in BOOLEAN /\ Due(init[r]) \in BOOLEAN
      /\ SeatView(r, s).at = "user" /\ StageOf(thread[t]) = "user" /\ Begun(r) /\ s \in ProcsOf(r)
      /\ Stage(r, s) = "user" /\ s \in Ids
  BY <1>0, <1>1, RunFacts, RunType DEF StageOf, Types
<1>a. View(r) \in [ProcsOf(r) -> Views] /\ \A q \in ProcsOf(r) : View(r)[q] = SeatView(r, q)
  BY <1>0, <1>1, RunFacts
<1>3. init[r] \in RunOf(init[r].P) /\ init[r].P \in Nat /\ ProcsOf(r) = 0 .. init[r].P - 1
  BY <1>0, <1>2, RunType DEF Types
<1>4. PICK x : x = thread[t]
  OBVIOUS
<1>5. /\ x \in Records /\ x.pc \in InRun /\ LocalOK(x) /\ SameKeys(thread[t], x)
      /\ thread' = [thread EXCEPT ![t] = x]
  <2>1. LocalOK(x)
    BY <1>0, <1>4 DEF Placed, ThreadOK
  <2> QED BY <1>0, <1>4, <2>1 DEF SameKeys
<1>6. PICK y, m, n, c : /\ y = history.syncs[r][s] /\ m = history.manual[r][s]
                        /\ n = history.settings + 1 /\ c = [history.since[r] EXCEPT !.touched = TRUE]
  OBVIOUS
<1>7. y \in Nat /\ m \in BOOLEAN /\ n \in Nat /\ history.since[r] \in Sinces
  BY <1>0, <1>2, <1>6, OwnHistory
<1>8. c \in Sinces /\ c.syncs = history.since[r].syncs /\ c.touched
  BY <1>6, <1>7 DEF Sinces
<1>9. HistoryTo(r, s, y, m, c, n)
  <2>1. history \in Histories
    BY <1>0 DEF Types, HistoryType
  <2>2. PICK cc : cc = [history.since EXCEPT ![r] = c]
    OBVIOUS
  <2>3. history' = [history EXCEPT !.settings = n, !.since = cc]
    BY <1>6, <2>2 DEF Setting
  <2>4. history' = [history EXCEPT !.syncs = history.syncs, !.manual = history.manual, !.since = cc, !.settings = n]
    BY <2>1, <2>3 DEF Histories
  <2>5. /\ history.syncs = [history.syncs EXCEPT ![r] = [history.syncs[r] EXCEPT ![s] = y]]
        /\ history.manual = [history.manual EXCEPT ![r] = [history.manual[r] EXCEPT ![s] = m]]
    BY <1>0, <1>2, <1>6, SameHistoryEffect
  <2> QED BY <2>2, <2>4, <2>5 DEF HistoryTo
<1>10. /\ QuietHistory(t) /\ history'.syncs[r][s] = y /\ history'.manual[r][s] = m /\ history'.since[r] = c
  BY <1>0, <1>1, <1>2, <1>7, <1>8, <1>9, HistoryEffect
<1>11. QuietTo(t, x, j)
  <2>1. MachineType'
    BY <1>0 DEF Types, MachineType, MachineInfo
  <2> QED BY <1>0, <1>5, <1>10, <2>1 DEF QuietTo
<1>12. Types' /\ Quiet(t) /\ thread'[t] = x /\ init'[r] = j
  BY <1>0, <1>1, <1>11, QuietParts
<1>13. SeatView(r, s)'.at = "user" /\ Lawful(t)
  <2>1. StageOf(thread'[t]) = "user"
    BY <1>2, <1>4, <1>12
  <2> QED BY <1>0, <1>1, <1>12, <2>1, QuietViews DEF Lawful, Lonely
<1>14. SeatView(r, s)' = SeatView(r, s)
  BY <1>2, <1>6, <1>10, <1>12, <1>13 DEF SeatView
<1>15. Carried(r, s)
  <2> SUFFICES ASSUME NEW b \in Bases, NEW V, NEW W, Moves(V, W, s, ProcsOf(r)),
                      V[s] = SeatView(r, s), W[s] = SeatView(r, s)',
                      Account(V, ProcsOf(r), b, hp, init[r].ended, Due(init[r]), ManualAt[r])
               PROVE  Account(W, ProcsOf(r), b, hp, init[r].ended, Due(j), ManualAt[r])
    BY <1>12 DEF Carried
  <2>1. W = V /\ V \in [ProcsOf(r) -> Views] /\ V[s].at = "user"
    <3>1. V \in [ProcsOf(r) -> Views] /\ W \in [ProcsOf(r) -> Views] /\ \A q \in ProcsOf(r) : W[q] = V[q]
      BY <1>14 DEF Moves
    <3>2. W = V
      BY <3>1
    <3> QED BY <1>2, <3>1, <3>2
  <2>2. PICK h1, en, du, ma, S, d2 : /\ h1 = hp /\ en = init[r].ended /\ du = Due(init[r])
                                     /\ ma = ManualAt[r] /\ S = ProcsOf(r) /\ d2 = Due(j)
    OBVIOUS
  <2>3. h1 \in BOOLEAN /\ en \in BOOLEAN /\ du \in BOOLEAN /\ d2 \in BOOLEAN /\ V \in [S -> Views] /\ s \in S
    BY <1>2, <2>1, <2>2, DueIsBoolean
  <2>4. Account(V, S, b, h1, en, d2, ma)
    BY <2>1, <2>2, <2>3, SettingMove
  <2> QED BY <2>1, <2>2, <2>4
<1>16. DataInv'
  <2>1. DataOf(r) /\ DataInv
    BY <1>2 DEF LifeIInv, DataInv
  <2>2. Begun(r)'
    BY <1>0, <1>2, <1>12, QuietShape
  <2>3. DataOf(r)'
    BY <1>2, <1>8, <1>10, <1>12, <2>1, <2>2 DEF DataOf
  <2> QED BY <1>0, <1>1, <1>12, <2>1, <2>3, QuietData
<1> QED BY <1>1, <1>12, <1>13, <1>15, <1>16, CarriedStep

(* A step that changes nothing that runs depend on. *)
Apart ==
  /\ UNCHANGED <<hp, heap, init, thread>> /\ failing' \in BOOLEAN /\ fatal' \in BOOLEAN
  /\ MachineType' /\ HistoryType'
  /\ history'.begun = history.begun /\ history'.inside = history.inside
  /\ history'.syncs = history.syncs /\ history'.manual = history.manual
  /\ history'.since = history.since

(* Such a step keeps the invariant. *)
LEMMA ApartStep ==
  ASSUME LifeIInv, Apart
  PROVE  LifeIInv'
<1>1. Types'
  <2>1. InitType' /\ ThreadType'
    BY DEF LifeIInv, Types, Apart, InitType, ThreadType, Begun
  <2>2. HeapType'
    BY DEF LifeIInv, Types, Apart, HeapType, InitData, SharedArrays, Descriptor, ThreadData, Queues
  <2> QED BY <2>1, <2>2 DEF LifeIInv, Types, Apart
<1>2. /\ thread' = thread /\ init' = init /\ heap' = heap /\ hp' = hp
      /\ \A t : Inside(t)' = Inside(t) /\ Innermost(t)' = Innermost(t)
      /\ history'.begun = history.begun
      /\ history'.syncs = history.syncs /\ history'.manual = history.manual
      /\ history'.since = history.since
  BY DEF Apart, Inside, Innermost
<1>3. \A r : (Begun(r)' <=> Begun(r)) /\ (Live(r)' <=> Live(r)) /\ ProcsOf(r)' = ProcsOf(r)
  BY <1>2 DEF Begun, Live, ProcsOf
<1>4. \A r, s : Stage(r, s)' = Stage(r, s)
  BY <1>2 DEF Stage
<1>5. Placed'
  BY <1>2, <1>3 DEF LifeIInv, Placed, ThreadOK, Seated, Chain, Pending, Spawning, Spawned, RunOK, Run
<1>6. Synchronised'
  <2>1. \A r : View(r)' = View(r)
    BY <1>2, <1>3, <1>4 DEF View, SeatView
  <2> QED BY <1>2, <1>3, <1>4, <2>1 DEF LifeIInv, Synchronised, Aborted, InStep
<1>7. HeapInv'
  BY <1>2, <1>3, <1>4 DEF LifeIInv, HeapInv, HeapOfRun, HeapOf, HeapOfSeat, InLiveRuns
<1>8. LinkedInv'
  BY <1>2, <1>3, <1>4 DEF LifeIInv, LinkedInv, Linked, Joined, Run
<1>9. DataInv'
  BY <1>2, <1>3, <1>4 DEF LifeIInv, DataInv, DataOf
<1> QED BY <1>1, <1>5, <1>6, <1>7, <1>8, <1>9 DEF LifeIInv

(* A setting made outside a run. *)
LEMMA MainSetting ==
  ASSUME LifeIInv, NEW t \in Threads, thread[t].pc # "user", NEW m1 \in MachineInfo, NEW j, Setting(t, m1, j)
  PROVE  LifeIInv'
<1>0. Types
  BY DEF LifeIInv
<1>1. MachineType'
  <2>1. machine' = [machine EXCEPT ![t] = m1] /\ machine \in [Threads -> MachineInfo]
    BY <1>0 DEF Setting, Types, MachineType, MachineInfo
  <2> QED BY <2>1 DEF MachineType, MachineInfo
<1>2. /\ HistoryType' /\ history'.begun = history.begun /\ history'.inside = history.inside
      /\ history'.syncs = history.syncs /\ history'.manual = history.manual
      /\ history'.since = history.since
  <2>1. history \in Histories /\ history' = [history EXCEPT !.settings = history.settings + 1]
    BY <1>0 DEF Setting, Types, HistoryType
  <2>2. history.settings + 1 \in Nat
    BY <2>1 DEF Histories
  <2> QED BY <2>1, <2>2 DEF HistoryType, Histories
<1>3. Apart
  BY <1>0, <1>1, <1>2 DEF Apart, Setting, Types
<1> QED BY <1>3, ApartStep

(* The frequencies are set, inside a run or outside. *)
LEMMA SetFrequencyStep ==
  ASSUME LifeIInv, NEW t \in Threads, SetFrequency(t)
  PROVE  LifeIInv'
<1>0. Types /\ Placed /\ machine[t] \in MachineInfo /\ thread[t].pc \in {"main", "user"}
  BY DEF LifeIInv, Types, MachineType, MachineInfo, SetFrequency
<1>1. PICK f \in Frequencies :
       \/ Setting(t, FrequencyInMachine(machine[t], f), FrequencyInInit(Run(t), machine[t], f))
       \/ Setting(t, SafeFrequencyInMachine(machine[t], f), SafeFrequencyInInit(Run(t), f))
  BY DEF SetFrequency
<1>2. f \in Nat
  BY <1>1, FrequencyAssumption
<1>3. /\ FrequencyInMachine(machine[t], f) \in MachineInfo /\ SafeFrequencyInMachine(machine[t], f) \in MachineInfo
  BY <1>0, <1>2 DEF FrequencyInMachine, SafeFrequencyInMachine, MachineInfo
<1>4. CASE thread[t].pc = "main"
  BY <1>1, <1>3, <1>4, MainSetting
<1>5. CASE thread[t].pc = "user"
  <2>1. PICK r : r = thread[t].run
    OBVIOUS
  <2>2. init[r] \in RunOf(init[r].P)
    <3>1. thread[t].run # NoRun /\ Seated(t)
      BY <1>0, <1>5 DEF Placed, ThreadOK
    <3> QED BY <1>0, <2>1, <3>1, SeatType
  <2>3. ASSUME NEW j \in {FrequencyInInit(init[r], machine[t], f), SafeFrequencyInInit(init[r], f)}
        PROVE  /\ j \in RunOf(init[r].P) /\ SameShape(init[r], j) /\ j.arrived = init[r].arrived
               /\ j.ended = init[r].ended /\ j.skipped_checkpoints = init[r].skipped_checkpoints
    <3>1. CASE j = SafeFrequencyInInit(init[r], f)
      BY <1>2, <2>2, <3>1 DEF SafeFrequencyInInit, RunOf, SameShape
    <3>2. CASE j = FrequencyInInit(init[r], machine[t], f)
      <4>1. PICK g : g = IF machine[t].SCFset THEN init[r].safe_cp_f ELSE f
        OBVIOUS
      <4>2. g \in Nat
        BY <1>2, <2>2, <4>1, RunFields
      <4>3. j = [init[r] EXCEPT !.cp_f = f, !.safe_cp_f = g]
        BY <3>2, <4>1 DEF FrequencyInInit
      <4> QED BY <1>2, <2>2, <4>2, <4>3 DEF RunOf, SameShape
    <3> QED BY <2>3, <3>1, <3>2
  <2>4. PICK m1, m2, j1, j2 :
          /\ m1 = FrequencyInMachine(machine[t], f) /\ m2 = SafeFrequencyInMachine(machine[t], f)
          /\ j1 = FrequencyInInit(init[r], machine[t], f) /\ j2 = SafeFrequencyInInit(init[r], f)
    OBVIOUS
  <2>5. Setting(t, m1, j1) \/ Setting(t, m2, j2)
    BY <1>1, <2>1, <2>4 DEF Run
  <2>6. CASE Setting(t, m1, j1)
    <3>1. /\ j1 \in RunOf(init[r].P) /\ SameShape(init[r], j1) /\ j1.arrived = init[r].arrived
          /\ j1.ended = init[r].ended /\ j1.skipped_checkpoints = init[r].skipped_checkpoints
      BY <2>3, <2>4
    <3> QED BY <1>3, <1>5, <2>1, <2>4, <2>6, <3>1, SettingStep
  <2>7. CASE Setting(t, m2, j2)
    <3>1. /\ j2 \in RunOf(init[r].P) /\ SameShape(init[r], j2) /\ j2.arrived = init[r].arrived
          /\ j2.ended = init[r].ended /\ j2.skipped_checkpoints = init[r].skipped_checkpoints
      BY <2>3, <2>4
    <3> QED BY <1>3, <1>5, <2>1, <2>4, <2>7, <3>1, SettingStep
  <2> QED BY <2>5, <2>6, <2>7
<1> QED BY <1>0, <1>4, <1>5

(* Checkpoints are switched on or off. *)
LEMMA SwitchCheckpointsStep ==
  ASSUME LifeIInv, NEW t \in Threads, SwitchCheckpoints(t)
  PROVE  LifeIInv'
<1>0. Types /\ Placed /\ machine[t] \in MachineInfo /\ thread[t].pc = "user"
  BY DEF LifeIInv, Types, MachineType, MachineInfo, SwitchCheckpoints
<1>1. PICK r, m : r = thread[t].run /\ m = machine[t]
  OBVIOUS
<1>2. PICK j \in {EnableCheckpoints(init[r]), DisableCheckpoints(init[r])} : Setting(t, m, j)
  BY <1>1 DEF SwitchCheckpoints, Run
<1>3. init[r] \in RunOf(init[r].P)
  <2>1. thread[t].run # NoRun /\ Seated(t)
    BY <1>0 DEF Placed, ThreadOK
  <2> QED BY <1>0, <1>1, <2>1, SeatType
<1>4. /\ j \in RunOf(init[r].P) /\ SameShape(init[r], j) /\ j.arrived = init[r].arrived
      /\ j.ended = init[r].ended /\ j.skipped_checkpoints = init[r].skipped_checkpoints
  BY <1>2, <1>3 DEF EnableCheckpoints, DisableCheckpoints, RunOf, SameShape
<1> QED BY <1>0, <1>1, <1>2, <1>4, SettingStep

(* The file /etc/bsp_failure comes or goes. *)
LEMMA DaemonStep ==
  ASSUME LifeIInv, Daemon
  PROVE  LifeIInv'
<1>0. Types
  BY DEF LifeIInv
<1>1. /\ HistoryType' /\ history'.begun = history.begun /\ history'.inside = history.inside
      /\ history'.syncs = history.syncs /\ history'.manual = history.manual
      /\ history'.since = history.since
  <2>1. history \in Histories /\ history' = [history EXCEPT !.settings = history.settings + 1]
    BY <1>0 DEF Daemon, Types, HistoryType
  <2>2. history.settings + 1 \in Nat
    BY <2>1 DEF Histories
  <2> QED BY <2>1, <2>2 DEF HistoryType, Histories
<1>2. Apart
  BY <1>0, <1>1 DEF Apart, Daemon, Types, MachineType
<1> QED BY <1>2, ApartStep

(* The fatal error changes nothing else. *)
LEMMA MismatchedEndStep ==
  ASSUME LifeIInv, NEW t \in Threads, MismatchedEnd(t)
  PROVE  LifeIInv'
<1>1. Apart
  BY DEF LifeIInv, Apart, MismatchedEnd, Types, MachineType, HistoryType, Histories
<1> QED BY <1>1, ApartStep

(* Nothing happens. *)
LEMMA StutterStep ==
  ASSUME LifeIInv, UNCHANGED vars
  PROVE  LifeIInv'
<1>1. Apart
  BY DEF LifeIInv, Apart, vars, Types, MachineType, HistoryType, Histories
<1> QED BY <1>1, ApartStep

----
(* Runs that have begun keep their processes and where they began, and a
   thread that has exited stays so. *)
Grown ==
  /\ \A q \in Runs : Begun(q) =>
       /\ Begun(q)' /\ init'[q].P = init[q].P /\ init'[q].prev_data = init[q].prev_data
       /\ init[q].abort => init'[q].abort
       /\ \A p \in ProcsOf(q) :
            \/ init'[q].threads[p] = init[q].threads[p]
            \/ init[q].threads[p] = NoThread /\ thread'[init'[q].threads[p]].pc # "none"
  /\ \A v \in Threads : /\ thread[v].pc = "exited" => thread'[v].pc = "exited"
                        /\ thread[v].pc # "none" => thread'[v].pc # "none"
  /\ history.begun <= history'.begun

(* A step does nothing to thread u, nor to what it has a hold on. *)
Beside(u) ==
  /\ thread'[u] = thread[u] /\ history'.inside[u] = history.inside[u]
  /\ thread[u].pc = "spawning" => init'[thread[u].run].threads = init[thread[u].run].threads
  /\ thread[u].init_data # NoRun =>
       /\ thread[u].pc # "spawning" => init'[thread[u].init_data].P = init[thread[u].init_data].P
       /\ thread[u].pc \notin {"spawning", "exited"} => InitData(thread[u].init_data) \in heap'
       /\ \A v \in Threads : v # u => thread'[v].init_data # thread[u].init_data
  /\ \A q \in Runs :
       /\ InitData(q) \in heap
       /\ (thread[u].run = q /\ thread[u].pc # "exited") \/ \E k \in 1 .. Len(Inside(u)) : Inside(u)[k][1] = q
       => InitData(q) \in heap'

(* Everything that is claimed of one thread. *)
PlacedThread(u) ==
  /\ ThreadOK(u) /\ Seated(u) /\ Chain(u) /\ Pending(u) /\ Spawning(u) /\ Spawned(u)
  /\ InLiveRuns(u) /\ Joined(u)

(* Then everything claimed of thread u stays true. *)
LEMMA BesideStep ==
  ASSUME Types, Types', Placed, HeapInv, LinkedInv, Grown, NEW u \in Threads, Beside(u)
  PROVE  PlacedThread(u)'
<1>1. /\ ThreadOK(u) /\ Seated(u) /\ Chain(u) /\ Pending(u) /\ Spawning(u) /\ Spawned(u)
      /\ InLiveRuns(u) /\ Joined(u)
  BY DEF Placed, HeapInv, LinkedInv
<1>2. /\ thread'[u] = thread[u] /\ Inside(u)' = Inside(u) /\ Innermost(u)' = Innermost(u)
  BY DEF Beside, Inside, Innermost
<1>3. \A q \in Runs : Begun(q) =>
       /\ Begun(q)' /\ init'[q].P = init[q].P /\ init'[q].prev_data = init[q].prev_data
       /\ init[q].abort => init'[q].abort
       /\ \A p \in ProcsOf(q) :
            init[q].threads[p] # NoThread => init'[q].threads[p] = init[q].threads[p]
  BY DEF Grown
<1>4. /\ thread[u].run \in Runs \cup {NoRun} /\ thread[u].id \in Ids /\ thread[u].pc \in PCs
      /\ thread[u].init_data \in Runs \cup {NoRun}
  BY ThreadFields DEF Types, ThreadType
<1>5. \A k \in 1 .. Len(Inside(u)) : Inside(u)[k] \in Runs \X Ids
  BY DEF Types, HistoryType, Histories, Inside
<1>6. \A q \in Runs : Begun(q) =>
        init[q].P \in Nat /\ ProcsOf(q) = 0 .. init[q].P - 1 /\ (init[q].abort \in BOOLEAN)
  BY RunType, RunFields DEF Types
<1>7. \A q \in Runs : Begun(q) => ProcsOf(q)' = ProcsOf(q)
  BY <1>3 DEF ProcsOf
<1>8. \A s \in Ids : s \in Nat
  BY Constants
<1>9. thread[u].run # NoRun =>
        /\ thread[u].run \in Runs /\ Begun(thread[u].run) /\ thread[u].id \in ProcsOf(thread[u].run)
  BY <1>1, SeatType
<1>10. ThreadOK(u)'
  BY <1>1, <1>2, <1>3, <1>9 DEF ThreadOK
<1>11. Seated(u)'
  <2>1. thread[u].pc = "spawning" => init'[thread[u].run].threads = init[thread[u].run].threads
    BY DEF Beside
  <2> QED BY <1>1, <1>2, <1>3, <1>9, <2>1, NoThreadIsNone DEF Seated
<1>12. Chain(u)'
  <2>1. ASSUME NEW k \in 1 .. Len(Inside(u))
        PROVE  /\ Begun(Inside(u)[k][1])' /\ Inside(u)[k][2] < init'[Inside(u)[k][1]].P
               /\ init'[Inside(u)[k][1]].threads[Inside(u)[k][2]] = u
               /\ init'[Inside(u)[k][1]].prev_data = init[Inside(u)[k][1]].prev_data
    <3>1. PICK q, s : q = Inside(u)[k][1] /\ s = Inside(u)[k][2]
      OBVIOUS
    <3>2. q \in Runs /\ s \in Ids /\ Begun(q) /\ s < init[q].P /\ init[q].threads[s] = u
      BY <1>1, <1>5, <2>1, <3>1 DEF Chain
    <3>3. s \in ProcsOf(q)
      BY <1>6, <1>8, <3>2
    <3>4. Begun(q)' /\ s < init'[q].P /\ init'[q].threads[s] = u /\ init'[q].prev_data = init[q].prev_data
      BY <1>3, <3>2, <3>3, NoThreadIsNone
    <3> QED BY <1>2, <3>1, <3>4
  <2>2. \A k \in 1 .. Len(Inside(u)) - 1 : k \in 1 .. Len(Inside(u)) /\ k + 1 \in 1 .. Len(Inside(u))
    <3>1. Len(Inside(u)) \in Nat
      BY DEF Types, HistoryType, Histories, Inside
    <3> QED BY <3>1
  <2>3. Inside(u) # <<>> => 1 \in 1 .. Len(Inside(u))
    BY DEF Types, HistoryType, Histories, Inside
  <2> QED BY <1>1, <1>2, <2>1, <2>2, <2>3 DEF Chain
<1>13. Pending(u)'
  <2>1. history.begun <= history'.begun /\ history.begun \in Nat /\ history'.begun \in Nat
    BY DEF Grown, Types, HistoryType, Histories
  <2>2. thread[u].init_data # NoRun =>
       /\ thread[u].pc # "spawning" => init'[thread[u].init_data].P = init[thread[u].init_data].P
       /\ thread[u].pc \notin {"spawning", "exited"} => InitData(thread[u].init_data) \in heap'
       /\ \A v \in Threads : v # u => thread'[v].init_data # thread[u].init_data
    BY DEF Beside
  <2>3. thread[u].init_data # NoRun /\ thread[u].pc # "spawning" => ~ Begun(thread[u].init_data)'
    BY <1>1, <1>2, <2>2 DEF Pending, Begun
  <2>4. thread[u].init_data # NoRun => thread[u].init_data <= history'.begun
    <3>1. PICK q : q = thread[u].init_data
      OBVIOUS
    <3>2. q # NoRun => q <= history.begun
      BY <1>1, <3>1 DEF Pending
    <3>3. q \in Runs \cup {NoRun}
      BY <1>4, <3>1
    <3>4. q \in Nat
      BY <3>3, Constants DEF NoRun
    <3> QED BY <2>1, <3>1, <3>2, <3>4
  <2> QED BY <1>1, <1>2, <1>4, <2>2, <2>3, <2>4 DEF Pending
<1>14. Spawning(u)'
  <2> SUFFICES ASSUME thread[u].pc = "spawning" PROVE Spawning(u)'
    BY <1>2 DEF Spawning
  <2>1. init'[thread[u].run].threads = init[thread[u].run].threads /\ thread[u].run # NoRun
    BY <1>1 DEF Beside, ThreadOK
  <2> QED BY <1>1, <1>2, <1>3, <1>7, <1>9, <2>1 DEF Spawning, Run
<1>15. Spawned(u)'
  <2> SUFFICES ASSUME thread[u].pc # "none", u # 0 PROVE Spawned(u)'
    BY <1>2 DEF Spawned
  <2>1. PICK r \in Runs : Begun(r) /\ \E s \in 1 .. init[r].P - 1 : init[r].threads[s] = u
    BY <1>1 DEF Spawned
  <2>2. PICK s \in 1 .. init[r].P - 1 : init[r].threads[s] = u
    BY <2>1
  <2>3. s \in ProcsOf(r)
    BY <1>6, <2>1
  <2>4. Begun(r)' /\ init'[r].P = init[r].P /\ init'[r].threads[s] = u
    BY <1>3, <2>1, <2>2, <2>3, NoThreadIsNone
  <2> QED BY <2>4 DEF Spawned
<1>16. InLiveRuns(u)'
  <2>1. \A q \in Runs :
         /\ InitData(q) \in heap
         /\ (thread[u].run = q /\ thread[u].pc # "exited") \/ \E k \in 1 .. Len(Inside(u)) : Inside(u)[k][1] = q
         => InitData(q) \in heap'
    BY DEF Beside
  <2>2. thread[u].run # NoRun /\ thread[u].pc # "exited" => Live(thread[u].run)'
    BY <1>1, <1>2, <1>3, <1>9, <2>1 DEF InLiveRuns, Live, InitData
  <2>3. ASSUME NEW k \in 1 .. Len(Inside(u)) PROVE Live(Inside(u)[k][1])'
    <3>1. PICK q : q = Inside(u)[k][1]
      OBVIOUS
    <3>2. q \in Runs /\ Live(q)
      BY <1>1, <1>5, <2>3, <3>1 DEF InLiveRuns
    <3>3. Live(q)'
      BY <1>3, <2>1, <2>3, <3>1, <3>2 DEF Live, InitData
    <3> QED BY <1>2, <3>1, <3>3
  <2> QED BY <1>2, <2>2, <2>3 DEF InLiveRuns
<1>17. Joined(u)'
  <2> SUFFICES ASSUME thread[u].pc = "joining" PROVE Joined(u)'
    BY <1>2 DEF Joined
  <2>1. PICK q : q = thread[u].run
    OBVIOUS
  <2>2. q \in Runs /\ Begun(q) /\ init[q].P \in Nat /\ thread[u].count \in 1 .. init[q].P
    BY <1>1, <1>6, <1>9, <2>1 DEF ThreadOK, Joined, Run
  <2>3. \A p \in 1 .. thread[u].count - 1 : p \in ProcsOf(q)
    BY <1>6, <2>2
  <2>4. \A p \in 1 .. thread[u].count - 1 :
          init[q].threads[p] # NoThread /\ thread[init[q].threads[p]].pc = "exited"
    BY <1>1, <2>1 DEF Joined, Run
  <2>5. \A p \in ProcsOf(q) : init[q].threads[p] \in Threads \cup {NoThread}
    BY <2>2, RunType, RunFields DEF Types
  <2>6. \A p \in 1 .. thread[u].count - 1 :
          /\ init'[q].threads[p] = init[q].threads[p] /\ init[q].threads[p] # NoThread
          /\ thread'[init[q].threads[p]].pc = "exited"
    <3>1. \A v \in Threads : thread[v].pc = "exited" => thread'[v].pc = "exited"
      BY DEF Grown
    <3>2. \A p \in ProcsOf(q) : init[q].threads[p] # NoThread => init'[q].threads[p] = init[q].threads[p]
      BY <1>3, <2>2
    <3> QED BY <2>3, <2>4, <2>5, <3>1, <3>2
  <2>7. init'[q].P = init[q].P
    BY <1>3, <2>2
  <2> QED BY <1>2, <2>1, <2>2, <2>6, <2>7 DEF Joined, Run
<1> QED BY <1>10, <1>11, <1>12, <1>13, <1>14, <1>15, <1>16, <1>17 DEF PlacedThread

(* Everything that is claimed of one run. *)
Accounted(q) == Live(q) => IF init[q].abort THEN Aborted(q) ELSE InStep(q)

(* All of it. *)
RunSound(q) == RunOK(q) /\ HeapOfRun(q) /\ Linked(q) /\ DataOf(q) /\ Accounted(q)

(* A step does nothing to run q but that its process s leaves for a run of
   its own, or returns from one. *)
Aside(q, s) ==
  /\ init'[q] = init[q] /\ hp' = hp
  /\ history'.syncs[q] = history.syncs[q] /\ history'.manual[q] = history.manual[q]
  /\ history'.since[q] = history.since[q]
  /\ \A o \in heap : o[2] = q => o \in heap'
  /\ \A o \in heap' : o[2] = q => o \in heap \/ (o = InitData(q) /\ q <= history'.begun /\ ~ Begun(q))
  /\ Begun(q) => \A p \in ProcsOf(q) :
       \/ Stage(q, p)' = Stage(q, p)
       \/ p = s /\ Stage(q, p) \in {"user", "away"} /\ Stage(q, p)' \in {"user", "away"}

(* Then everything claimed of run q stays true. *)
LEMMA AsideStep ==
  ASSUME Types, Types', Placed, Placed', Grown, NEW q \in Runs, RunSound(q), NEW s, Aside(q, s)
  PROVE  RunSound(q)'
<1>1. RunOK(q) /\ HeapOfRun(q) /\ Linked(q) /\ DataOf(q) /\ Accounted(q)
  BY DEF RunSound
<1>2. /\ init'[q] = init[q] /\ (Begun(q)' <=> Begun(q)) /\ ProcsOf(q)' = ProcsOf(q)
      /\ history'.syncs[q] = history.syncs[q] /\ history'.manual[q] = history.manual[q]
      /\ history'.since[q] = history.since[q] /\ hp' = hp
  BY DEF Aside, Begun, ProcsOf
<1>3. /\ \A o \in heap : o[2] = q => o \in heap'
      /\ \A o \in heap' : o[2] = q => o \in heap \/ (o = InitData(q) /\ q <= history'.begun /\ ~ Begun(q))
  BY DEF Aside
<1>4. ASSUME Begun(q), NEW p \in ProcsOf(q)
      PROVE  \/ Stage(q, p)' = Stage(q, p)
             \/ p = s /\ Stage(q, p) \in {"user", "away"} /\ Stage(q, p)' \in {"user", "away"}
  BY <1>4 DEF Aside
<1>5. Begun(q) => \A o : o[2] = q => (o \in heap' <=> o \in heap)
  BY <1>3
<1>6. Live(q)' <=> Live(q)
  BY <1>2, <1>5 DEF Live, InitData
<1>7. q \in Nat /\ history.begun \in Nat /\ history'.begun \in Nat /\ history.begun <= history'.begun
  BY Constants DEF Types, HistoryType, Histories, Grown
<1>8. RunOK(q)'
  BY Placed' DEF Placed
<1>9. HeapOfRun(q)'
  <2>1. ASSUME Live(q) PROVE HeapOf(q)'
    <3>1. HeapOf(q) /\ Begun(q)
      BY <1>1, <2>1 DEF HeapOfRun, Live
    <3>2. ASSUME NEW p \in ProcsOf(q) PROVE HeapOfSeat(q, p)'
      <4>1. HeapOfSeat(q, p)
        BY <3>1 DEF HeapOf
      <4> QED BY <1>2, <1>4, <1>5, <3>1, <4>1 DEF HeapOfSeat, Descriptor, ThreadData, Queues
    <3>3. /\ (SharedArrays(q) \in heap)'
          /\ \A p \in Ids \ ProcsOf(q) : {Descriptor(q, p), ThreadData(q, p), Queues(q, p)} \cap heap' = {}
      BY <1>5, <3>1 DEF HeapOf, SharedArrays, Descriptor, ThreadData, Queues
    <3> QED BY <1>2, <3>2, <3>3 DEF HeapOf
  <2>2. Begun(q) /\ ~ Live(q) => \A o \in heap' : o[2] # q
    BY <1>1, <1>5 DEF HeapOfRun
  <2>3. ASSUME ~ Begun(q), NEW o \in heap', o[2] = q PROVE o = InitData(q) /\ q <= history'.begun
    <3>1. CASE o \in heap
      BY <1>1, <1>7, <2>3, <3>1 DEF HeapOfRun
    <3>2. CASE o \notin heap
      BY <1>3, <2>3, <3>2
    <3> QED BY <3>1, <3>2
  <2>4. Live(q)' => HeapOf(q)'
    BY <1>6, <2>1
  <2>5. Begun(q)' /\ ~ Live(q)' => \A o \in heap' : o[2] # q
    BY <1>2, <1>6, <2>2
  <2>6. ~ Begun(q)' => \A o \in heap' : o[2] = q => o = InitData(q) /\ q <= history'.begun
    BY <1>2, <2>3
  <2> QED BY <2>4, <2>5, <2>6 DEF HeapOfRun, InitData
<1>10. Linked(q)'
  <2> SUFFICES ASSUME Live(q), NEW p \in ProcsOf(q)
               PROVE  p \in init[q].threadData <=> Stage(q, p)' \notin {"unborn", "born", "ready"}
    BY <1>2, <1>6 DEF Linked
  <2>1. p \in init[q].threadData <=> Stage(q, p) \notin {"unborn", "born", "ready"}
    BY <1>1 DEF Linked
  <2>2. Begun(q)
    BY DEF Live
  <2> QED BY <1>4, <2>1, <2>2
<1>11. DataOf(q)'
  <2>1. Begun(q) => 0 \in ProcsOf(q)
    BY RunType DEF Types
  <2>2. Begun(q) => Stage(q, 0)' = Stage(q, 0) \/
                    (Stage(q, 0) \in {"user", "away"} /\ Stage(q, 0)' \in {"user", "away"})
    BY <1>4, <2>1
  <2> QED BY <1>1, <1>2, <1>6, <2>2 DEF DataOf
<1>12. Accounted(q)'
  <2> SUFFICES ASSUME Live(q) PROVE IF init[q].abort THEN Aborted(q)' ELSE InStep(q)'
    BY <1>2, <1>6 DEF Accounted
  <2>0. Begun(q)
    BY DEF Live
  <2>1. ASSUME init[q].abort PROVE Aborted(q)'
    <3>1. Aborted(q)
      BY <1>1, <2>1 DEF Accounted
    <3> SUFFICES ASSUME NEW p \in ProcsOf(q)
                 PROVE  /\ Stage(q, p)' \notin {"synced", "delivering", "checkpointing", "ended", "leaving", "joining"}
                        /\ p = 0 => Stage(q, p)' \notin {"due", "manual"}
      BY <1>2 DEF Aborted
    <3>2. /\ Stage(q, p) \notin {"synced", "delivering", "checkpointing", "ended", "leaving", "joining"}
          /\ p = 0 => Stage(q, p) \notin {"due", "manual"}
      BY <3>1 DEF Aborted
    <3> QED BY <1>4, <2>0, <3>2
  <2>2. ASSUME ~ init[q].abort PROVE InStep(q)'
    <3>1. PICK b \in Bases : Account(View(q), ProcsOf(q), b, hp, init[q].ended, Due(init[q]), ManualAt[q])
      BY <1>1, <2>2 DEF Accounted, InStep
    <3>2. /\ View(q) \in [ProcsOf(q) -> Views] /\ \A p \in ProcsOf(q) : View(q)[p] = SeatView(q, p)
      BY <2>0, ViewType
    <3>3. /\ View(q)' \in [ProcsOf(q) -> Views] /\ \A p \in ProcsOf(q) : View(q)'[p] = SeatView(q, p)'
      BY <1>2, <2>0, ViewTypesNext
    <3>4. ASSUME NEW p \in ProcsOf(q), Stage(q, p)' = Stage(q, p) PROVE SeatView(q, p)' = SeatView(q, p)
      BY <1>2, <3>4 DEF SeatView
    <3>5. CASE \A p \in ProcsOf(q) : Stage(q, p)' = Stage(q, p)
      <4>1. View(q)' = View(q)
        BY <1>2, <3>4, <3>5 DEF View
      <4> QED BY <1>2, <3>1, <4>1 DEF InStep
    <3>6. CASE ~ \A p \in ProcsOf(q) : Stage(q, p)' = Stage(q, p)
      <4>1. /\ s \in ProcsOf(q) /\ Stage(q, s) \in {"user", "away"} /\ Stage(q, s)' \in {"user", "away"}
            /\ \A p \in ProcsOf(q) : p # s => Stage(q, p)' = Stage(q, p)
        BY <1>4, <2>0, <3>6
      <4>2. Moves(View(q), View(q)', s, ProcsOf(q))
        BY <3>2, <3>3, <3>4, <4>1 DEF Moves
      <4>3. PICK to \in {"user", "away"} : to = Stage(q, s)'
        BY <4>1
      <4>4. Step(View(q)[s], View(q)'[s], to, 0, 0, 0) /\ View(q)[s].at \in {"user", "away"}
        <5>1. View(q)[s] = SeatView(q, s) /\ View(q)'[s] = SeatView(q, s)' /\ View(q)[s] \in Views
          BY <3>2, <3>3, <4>1
        <5>2. View(q)[s].A \in Nat /\ View(q)[s].M \in Nat /\ View(q)[s].E \in Nat
          BY <5>1, ViewFields
        <5> QED BY <1>2, <4>1, <4>3, <5>1, <5>2 DEF Step, Arriving, SeatView
      <4>5. PICK h, en, du, ma, S, V, W :
              /\ h = hp /\ en = init[q].ended /\ du = Due(init[q]) /\ ma = ManualAt[q] /\ S = ProcsOf(q)
              /\ V = View(q) /\ W = View(q)'
        OBVIOUS
      <4>6. h \in BOOLEAN /\ en \in BOOLEAN /\ du \in BOOLEAN
        <5>1. init[q].ended \in BOOLEAN
          BY <2>0, RunType, RunFields DEF Types
        <5> QED BY <4>5, <5>1, DueIsBoolean DEF Types
      <4>7. Account(V, S, b, h, en, du, ma)
        BY <3>1, <4>5
      <4>8. Moves(V, W, s, S) /\ Step(V[s], W[s], to, 0, 0, 0) /\ V[s].at \in {"user", "away"}
        BY <4>2, <4>4, <4>5
      <4>9. Account(W, S, b, h, en, du, ma)
        BY <4>6, <4>7, <4>8, IdleMove
      <4> QED BY <1>2, <4>5, <4>9 DEF InStep
    <3> QED BY <3>5, <3>6
  <2> QED BY <2>1, <2>2
<1> QED BY <1>8, <1>9, <1>10, <1>11, <1>12 DEF RunSound

(* It is enough to look at the threads and the runs one by one. *)
LEMMA EachRun ==
  LifeIInv => Types /\ Placed /\ \A q \in Runs : RunSound(q)
BY DEF LifeIInv, RunSound, Synchronised, HeapInv, LinkedInv, DataInv, Placed, Accounted

(* Threads and runs together make the invariant. *)
LEMMA Together ==
  Types /\ (\A u \in Threads : PlacedThread(u)) /\ (\A q \in Runs : RunSound(q)) => LifeIInv
BY DEF LifeIInv, RunSound, Synchronised, HeapInv, LinkedInv, DataInv, Placed, Accounted, PlacedThread

(* And in the next state. *)
LEMMA TogetherNext ==
  ASSUME Types', \A u \in Threads : PlacedThread(u)', \A q \in Runs : RunSound(q)'
  PROVE  LifeIInv'
<1>1. (Types /\ (\A u \in Threads : PlacedThread(u)) /\ (\A q \in Runs : RunSound(q)) => LifeIInv)'
  BY Together, PTL
<1> QED BY <1>1

(* A process stays at its stage when its thread does what it did. *)
LEMMA StageSame ==
  ASSUME NEW q, NEW p, init'[q].threads[p] = init[q].threads[p],
         LET u == init[q].threads[p] IN
         u # NoThread =>
           \/ /\ thread'[u].run = thread[u].run /\ thread'[u].id = thread[u].id
              /\ thread'[u].pc = thread[u].pc /\ thread'[u].on = thread[u].on
              /\ thread'[u].then = thread[u].then
           \/ /\ thread[u].run # q \/ thread[u].id # p
              /\ thread'[u].run # q \/ thread'[u].id # p
  PROVE  Stage(q, p)' = Stage(q, p)
BY DEF Stage, StageOf

(* The order in which runs began. *)
LEMMA Orders ==
  ASSUME Types, Placed, NEW t \in Threads
  PROVE  /\ history.begun \in 0 .. MaxRuns /\ history.begun \in Nat /\ Runs = 1 .. MaxRuns
         /\ MaxRuns \in Nat
         /\ \A q \in Runs : Begun(q) => q <= history.begun
         /\ thread[t].init_data # NoRun => thread[t].init_data \in Runs /\ thread[t].init_data <= history.begun
         /\ Inside(t) # <<>> =>
              /\ Last(Inside(t)) \in Runs \X Ids /\ Begun(Last(Inside(t))[1])
              /\ Innermost(t) = Last(Inside(t)) /\ Last(Inside(t))[1] <= history.begun
              /\ init[Last(Inside(t))[1]].threads[Last(Inside(t))[2]] = t
              /\ Last(Inside(t))[2] \in ProcsOf(Last(Inside(t))[1])
         /\ Inside(t) \in Seq(Runs \X Ids)
<1>1. history \in Histories /\ history.begun \in 0 .. MaxRuns /\ Inside(t) \in Seq(Runs \X Ids)
  BY DEF Types, HistoryType, Histories, Inside
<1>2. \A q \in Runs : Begun(q) => q <= history.begun
  BY DEF Placed, RunOK
<1>3. thread[t].init_data # NoRun => thread[t].init_data \in Runs /\ thread[t].init_data <= history.begun
  BY ThreadFields DEF Placed, Pending, Types, ThreadType
<1>4. ASSUME Inside(t) # <<>>
      PROVE  /\ Last(Inside(t)) \in Runs \X Ids /\ Begun(Last(Inside(t))[1])
             /\ Innermost(t) = Last(Inside(t))
             /\ init[Last(Inside(t))[1]].threads[Last(Inside(t))[2]] = t
             /\ Last(Inside(t))[2] < init[Last(Inside(t))[1]].P
  <2>1. Len(Inside(t)) \in 1 .. Len(Inside(t)) /\ Last(Inside(t)) = Inside(t)[Len(Inside(t))]
    BY <1>1, <1>4 DEF Last
  <2>2. Chain(t)
    BY DEF Placed
  <2> QED BY <1>1, <1>4, <2>1, <2>2 DEF Chain, Innermost
<1>5. ASSUME Inside(t) # <<>> PROVE Last(Inside(t))[2] \in ProcsOf(Last(Inside(t))[1])
  <2>1. PICK q, s : q = Last(Inside(t))[1] /\ s = Last(Inside(t))[2]
    OBVIOUS
  <2>2. q \in Runs /\ s \in Nat /\ Begun(q) /\ s < init[q].P
    BY <1>4, <1>5, <2>1, Constants
  <2>3. ProcsOf(q) = 0 .. init[q].P - 1 /\ init[q].P \in Nat
    BY <2>2, RunType DEF Types
  <2> QED BY <2>1, <2>2, <2>3
<1>6. ASSUME Inside(t) # <<>> PROVE Last(Inside(t))[1] <= history.begun
  BY <1>2, <1>4, <1>6
<1> QED BY <1>1, <1>2, <1>3, <1>4, <1>5, <1>6, Constants DEF Runs

(* A run that grows stays in order. *)
LEMMA GrownRunOK ==
  ASSUME Types, Types', Placed, Grown, NEW q \in Runs, Begun(q)
  PROVE  RunOK(q)'
<1>1. RunOK(q) /\ history.begun \in Nat /\ history'.begun \in Nat /\ q \in Nat
  BY Constants DEF Placed, Types, HistoryType, Histories
<1>2. q <= history'.begun
  BY <1>1 DEF RunOK, Grown
<1>3. ASSUME NEW p \in ProcsOf(q), init[q].threads[p] # NoThread
      PROVE  init'[q].threads[p] = init[q].threads[p] /\ thread'[init[q].threads[p]].pc # "none"
  <2>1. init[q].threads[p] \in Threads
    BY <1>3, RunType, RunFields DEF Types
  <2>2. thread[init[q].threads[p]].pc # "none"
    BY <1>1, <1>3 DEF RunOK
  <2> QED BY <1>3, <2>1, <2>2 DEF Grown
<1>4. ProcsOf(q)' = ProcsOf(q)
  BY DEF Grown, ProcsOf
<1>5. ASSUME NEW p \in ProcsOf(q), init'[q].threads[p] # NoThread
      PROVE  thread'[init'[q].threads[p]].pc # "none"
  <2>1. CASE init[q].threads[p] # NoThread
    BY <1>3, <1>5, <2>1
  <2>2. CASE init'[q].threads[p] # init[q].threads[p]
    BY <2>2 DEF Grown
  <2> QED BY <1>5, <2>1, <2>2
<1> QED BY <1>2, <1>4, <1>5 DEF RunOK

(* When no run begins, all of them stay as they were placed. *)
LEMMA PlacedNext ==
  ASSUME Types, Types', Placed, Grown, \A u \in Threads : PlacedThread(u)',
         \A q \in Runs : Begun(q)' /\ ~ Begun(q) => RunOK(q)'
  PROVE  Placed'
<1>1. \A q \in Runs : RunOK(q)'
  BY GrownRunOK DEF RunOK
<1> QED BY <1>1 DEF Placed, PlacedThread

----
(* The structures of processes. *)
ProcessStructures == {{Descriptor(r, s), ThreadData(r, s), Queues(r, s)} : r \in Runs, s \in Ids}

(* All structures there can be. *)
Structures ==
  {InitData(r) : r \in Runs} \cup {SharedArrays(r) : r \in Runs} \cup UNION ProcessStructures

(* Those of a run are among them. *)
LEMMA StructuresOf ==
  ASSUME NEW r \in Runs
  PROVE  /\ InitData(r) \in Structures /\ SharedArrays(r) \in Structures
         /\ \A s \in Ids : Descriptor(r, s) \in Structures /\ ThreadData(r, s) \in Structures /\ Queues(r, s) \in Structures
<1>1. ASSUME NEW s \in Ids
      PROVE  {Descriptor(r, s), ThreadData(r, s), Queues(r, s)} \subseteq Structures
  <2>1. {Descriptor(r, s), ThreadData(r, s), Queues(r, s)} \in ProcessStructures
    BY DEF ProcessStructures
  <2> QED BY <2>1 DEF Structures
<1>2. InitData(r) \in Structures /\ SharedArrays(r) \in Structures
  BY DEF Structures
<1> QED BY <1>1, <1>2

(* The heap's type by that name. *)
LEMMA HeapIsStructures == HeapType <=> heap \subseteq Structures
BY DEF HeapType, Structures, ProcessStructures

(* And in the next state. *)
LEMMA HeapNext == HeapType' <=> heap' \subseteq Structures
<1>1. (HeapType <=> heap \subseteq Structures)'
  BY HeapIsStructures, PTL
<1>2. Structures' = Structures
  BY DEF Structures, ProcessStructures, InitData, SharedArrays, Descriptor, ThreadData, Queues, Runs, Ids
<1> QED BY <1>1, <1>2

(* The names of the structures tell them apart. *)
LEMMA StructuresDiffer ==
  /\ \A q, r : InitData(q)[2] = q /\ SharedArrays(q)[2] = q /\ InitData(q) # SharedArrays(r)
  /\ \A q, r, s : /\ Descriptor(q, s)[2] = q /\ ThreadData(q, s)[2] = q /\ Queues(q, s)[2] = q
                  /\ InitData(r) \notin {Descriptor(q, s), ThreadData(q, s), Queues(q, s)}
                  /\ SharedArrays(r) \notin {Descriptor(q, s), ThreadData(q, s), Queues(q, s)}
  /\ \A q, r, s, p : /\ Descriptor(r, p) \notin {ThreadData(q, s), Queues(q, s)}
                     /\ ThreadData(r, p) # Queues(q, s)
                     /\ ThreadData(r, p) = ThreadData(q, s) => r = q /\ p = s
                     /\ Queues(r, p) = Queues(q, s) => r = q /\ p = s
                     /\ Descriptor(r, p) = Descriptor(q, s) => r = q /\ p = s
  /\ \A q, r : (InitData(q) = InitData(r) => q = r) /\ (SharedArrays(q) = SharedArrays(r) => q = r)
BY DEF InitData, SharedArrays, Descriptor, ThreadData, Queues

(* bsp_init allocates an init struct (mcbsp.c:401-416). *)
LEMMA BspInitStep ==
  ASSUME LifeIInv, NEW t \in Threads, BspInit(t)
  PROVE  LifeIInv'
<1>0. Types /\ Placed /\ HeapInv /\ LinkedInv /\ \A q \in Runs : RunSound(q)
  BY EachRun DEF LifeIInv
<1>1. PICK r : r = history.begun + 1
  OBVIOUS
<1>2. /\ thread[t].pc \in {"main", "user"} /\ thread[t].init_data = NoRun
      /\ history.begun < history.bound.runs
      /\ history' = [history EXCEPT !.begun = r] /\ heap' = heap \cup {InitData(r)}
      /\ thread' = [thread EXCEPT ![t].init_data = r]
      /\ hp' = hp /\ init' = init /\ machine' = machine /\ failing' = failing /\ fatal' = fatal
  BY <1>1 DEF BspInit
<1>3. history \in Histories /\ history.bound.runs \in 1 .. MaxRuns /\ thread \in [Threads -> Records]
  BY <1>0 DEF Types, HistoryType, Histories, ThreadType
<1>4. /\ history.begun \in Nat /\ Runs = 1 .. MaxRuns /\ MaxRuns \in Nat
      /\ \A q \in Runs : Begun(q) => q <= history.begun
      /\ \A u \in Threads : thread[u].init_data # NoRun => thread[u].init_data \in Runs /\ thread[u].init_data <= history.begun
      /\ Inside(t) # <<>> => Last(Inside(t)) \in Runs \X Ids /\ Last(Inside(t))[1] <= history.begun
  BY <1>0, Orders
<1>5. r \in Runs /\ r # NoRun /\ ~ Begun(r) /\ r \in Nat /\ r \in 0 .. MaxRuns
  BY <1>1, <1>2, <1>3, <1>4, Constants
<1>6. /\ thread'[t] = [thread[t] EXCEPT !.init_data = r] /\ thread[t] \in Records
      /\ \A u \in Threads : u # t => thread'[u] = thread[u]
  BY <1>2, <1>3
<1>7. /\ thread'[t] \in Records /\ thread'[t].init_data = r
      /\ thread'[t].pc = thread[t].pc /\ thread'[t].run = thread[t].run /\ thread'[t].id = thread[t].id
      /\ thread'[t].on = thread[t].on /\ thread'[t].then = thread[t].then
      /\ thread'[t].thread_data = thread[t].thread_data
  BY <1>5, <1>6 DEF Records
<1>8. Types'
  <2>1. ThreadType'
    BY <1>2, <1>3, <1>6, <1>7 DEF ThreadType
  <2>2. HistoryType'
    BY <1>2, <1>3, <1>5 DEF HistoryType, Histories
  <2>3. HeapType'
    BY <1>0, <1>2, <1>5, StructuresOf, HeapIsStructures, HeapNext DEF Types
  <2> QED BY <1>0, <1>2, <2>1, <2>2, <2>3 DEF Types, InitType, MachineType, Begun
<1>9. /\ history'.begun = r /\ history'.inside = history.inside /\ history'.syncs = history.syncs
      /\ history'.manual = history.manual /\ history'.since = history.since
  BY <1>2, <1>3 DEF Histories
<1>10. Grown
  <2>1. \A v \in Threads : /\ thread[v].pc = "exited" => thread'[v].pc = "exited"
                           /\ thread[v].pc # "none" => thread'[v].pc # "none"
    BY <1>6, <1>7
  <2> QED BY <1>1, <1>2, <1>4, <1>9, <2>1 DEF Grown, Begun
<1>15. \A u \in Threads : thread[u].init_data # r
  <2>1. ASSUME NEW q \in Runs, q <= history.begun PROVE q # r
    BY <1>1, <1>4, <2>1
  <2> QED BY <1>4, <1>5, <2>1
<1>11. ASSUME NEW u \in Threads, u # t PROVE PlacedThread(u)'
  <2>1. thread'[u] = thread[u] /\ history'.inside[u] = history.inside[u]
    BY <1>6, <1>9, <1>11
  <2>2. \A v \in Threads : thread[u].init_data # NoRun /\ v # u => thread'[v].init_data # thread[u].init_data
    <3>1. r # thread[u].init_data
      BY <1>15
    <3>2. \A v \in Threads : thread[u].init_data # NoRun /\ v # u => thread[v].init_data # thread[u].init_data
      BY <1>0 DEF Placed, Pending
    <3> QED BY <1>6, <1>7, <3>1, <3>2
  <2>3. thread[u].init_data # NoRun /\ thread[u].pc \notin {"spawning", "exited"} =>
          InitData(thread[u].init_data) \in heap'
    BY <1>0, <1>2 DEF Placed, Pending
  <2>4. Beside(u)
    BY <1>2, <2>1, <2>2, <2>3 DEF Beside
  <2> QED BY <1>0, <1>8, <1>10, <2>4, BesideStep
<1>12. PlacedThread(t)'
  <2>1. /\ ThreadOK(t) /\ Seated(t) /\ Chain(t) /\ Pending(t) /\ Spawning(t) /\ Spawned(t)
        /\ InLiveRuns(t) /\ Joined(t)
    BY <1>0 DEF Placed, HeapInv, LinkedInv
  <2>2. Inside(t)' = Inside(t) /\ Innermost(t)' = Innermost(t)
    BY <1>9 DEF Inside, Innermost
  <2>3. ThreadOK(t)' /\ Spawning(t)' /\ Joined(t)'
    BY <1>2, <1>7, <2>1, <2>2 DEF ThreadOK, LocalOK, Spawning, Joined
  <2>4. Seated(t)' /\ Chain(t)' /\ Spawned(t)'
    BY <1>2, <1>7, <2>1, <2>2 DEF Seated, Chain, Spawned, Begun
  <2>5. Pending(t)'
    <3>1. \A u \in Threads : u # t => thread'[u].init_data # r
      BY <1>6, <1>15
    <3>2. InitData(r) \in heap' /\ r <= history'.begun /\ ~ Begun(r)'
      BY <1>2, <1>5, <1>9 DEF Begun
    <3>3. Inside(t) # <<>> => Last(Inside(t))[1] < r
      <4>1. ASSUME NEW q \in Runs, q <= history.begun PROVE q < r
        BY <1>1, <1>4, <4>1
      <4> QED BY <1>4, <4>1
    <3> QED BY <1>7, <2>2, <3>1, <3>2, <3>3 DEF Pending
  <2>6. InLiveRuns(t)'
    BY <1>2, <1>7, <2>1, <2>2 DEF InLiveRuns, Live, Begun
  <2> QED BY <2>3, <2>4, <2>5, <2>6 DEF PlacedThread
<1>13. Placed'
  BY <1>0, <1>2, <1>8, <1>10, <1>11, <1>12, PlacedNext DEF Begun
<1>14. ASSUME NEW q \in Runs PROVE RunSound(q)'
  <2>1. ASSUME Begun(q), NEW p \in ProcsOf(q) PROVE Stage(q, p)' = Stage(q, p)
    <3>1. init[q].threads[p] # NoThread => init[q].threads[p] \in Threads
      BY <1>0, <2>1, SeatOf
    <3> QED BY <1>2, <1>6, <1>7, <3>1, StageSame
  <2>2. \A o \in heap' : o[2] = q => o \in heap \/ (o = InitData(q) /\ q <= history'.begun /\ ~ Begun(q))
    BY <1>2, <1>5, <1>9, StructuresDiffer
  <2>3. Aside(q, 0)
    BY <1>2, <1>9, <2>1, <2>2 DEF Aside
  <2> QED BY <1>0, <1>8, <1>10, <1>13, <2>3, AsideStep
<1> QED BY <1>8, <1>11, <1>12, <1>14, TogetherNext

(* A thread that moves takes nothing away from the others. *)
LEMMA OthersBeside ==
  ASSUME Types, Placed, NEW t \in Threads,
         \A u \in Threads : u # t => thread'[u] = thread[u] /\ history'.inside[u] = history.inside[u],
         thread'[t].init_data \in {thread[t].init_data, NoRun},
         \A q \in Runs : init'[q].P = init[q].P /\ init'[q].threads = init[q].threads,
         \A q \in Runs : InitData(q) \in heap => InitData(q) \in heap'
  PROVE  \A u \in Threads : u # t => Beside(u)
<1> SUFFICES ASSUME NEW u \in Threads, u # t PROVE Beside(u)
  OBVIOUS
<1>1. thread'[u] = thread[u] /\ history'.inside[u] = history.inside[u]
  OBVIOUS
<1>2. /\ thread[u].run \in Runs \cup {NoRun} /\ thread[u].init_data \in Runs \cup {NoRun}
      /\ thread[u].pc = "spawning" => thread[u].run \in Runs
  BY ThreadFields DEF Types, ThreadType, Placed, ThreadOK
<1>3. thread[u].init_data # NoRun => \A v \in Threads : v # u => thread'[v].init_data # thread[u].init_data
  <2>1. thread[u].init_data # NoRun => \A v \in Threads : v # u => thread[v].init_data # thread[u].init_data
    BY DEF Placed, Pending
  <2> QED BY <2>1
<1>4. thread[u].init_data # NoRun /\ thread[u].pc \notin {"spawning", "exited"} =>
        InitData(thread[u].init_data) \in heap'
  BY <1>2 DEF Placed, Pending
<1> QED BY <1>1, <1>2, <1>3, <1>4 DEF Beside

(* Nor does it disturb another run. *)
LEMMA OthersAside ==
  ASSUME Types, Placed, NEW t \in Threads, \A u \in Threads : u # t => thread'[u] = thread[u],
         thread'[t].run = thread[t].run, thread'[t].id = thread[t].id, hp' = hp,
         history'.syncs = history.syncs, history'.manual = history.manual, history'.since = history.since,
         NEW q \in Runs, init'[q] = init[q],
         q # thread[t].run \/ StageOf(thread'[t]) = StageOf(thread[t]),
         \A o \in heap : o[2] = q => o \in heap', \A o \in heap' : o[2] = q => o \in heap
  PROVE  Aside(q, 0)
<1>1. ASSUME Begun(q), NEW p \in ProcsOf(q) PROVE Stage(q, p)' = Stage(q, p)
  <2>1. init[q].threads[p] # NoThread => init[q].threads[p] \in Threads
    BY <1>1, SeatOf
  <2> QED BY <2>1 DEF Stage
<1> QED BY <1>1 DEF Aside

(* When a process of a run only changes its stage. *)
LEMMA OwnViews ==
  ASSUME Types, Types', Placed, Placed', NEW r \in Runs, Begun(r), NEW s \in ProcsOf(r),
         init'[r].P = init[r].P, init'[r].arrived = init[r].arrived,
         history'.syncs[r] = history.syncs[r], history'.manual[r] = history.manual[r],
         \A p \in ProcsOf(r) : p # s => Stage(r, p)' = Stage(r, p)
  PROVE  /\ Moves(View(r), View(r)', s, ProcsOf(r)) /\ ProcsOf(r)' = ProcsOf(r) /\ Begun(r)'
         /\ Step(View(r)[s], View(r)'[s], Stage(r, s)', 0, 0, 0) /\ View(r)[s].at = Stage(r, s)
<1>1. ProcsOf(r)' = ProcsOf(r) /\ Begun(r)'
  BY DEF ProcsOf, Begun
<1>2. View(r) \in [ProcsOf(r) -> Views] /\ \A p \in ProcsOf(r) : View(r)[p] = SeatView(r, p)
  BY ViewType
<1>3. View(r)' \in [ProcsOf(r) -> Views] /\ \A p \in ProcsOf(r) : View(r)'[p] = SeatView(r, p)'
  BY <1>1, ViewTypesNext
<1>4. ASSUME NEW p \in ProcsOf(r), p # s PROVE SeatView(r, p)' = SeatView(r, p)
  BY <1>4 DEF SeatView
<1>5. Moves(View(r), View(r)', s, ProcsOf(r))
  BY <1>2, <1>3, <1>4 DEF Moves
<1>6. View(r)[s] \in Views /\ View(r)[s] = SeatView(r, s) /\ View(r)'[s] = SeatView(r, s)'
  BY <1>2, <1>3
<1>7. View(r)[s].A \in Nat /\ View(r)[s].M \in Nat /\ View(r)[s].E \in Nat
  BY <1>6, ViewFields
<1> QED BY <1>1, <1>5, <1>6, <1>7 DEF Step, Arriving, SeatView

(* The program returns. *)
LEMMA ReturnStep ==
  ASSUME LifeIInv, NEW t \in Threads, Return(t)
  PROVE  LifeIInv'
<1>0. Types /\ Placed /\ HeapInv /\ LinkedInv /\ \A q \in Runs : RunSound(q)
  BY EachRun DEF LifeIInv
<1>1. /\ thread[t].pc = "main" /\ thread[t].init_data = NoRun
      /\ thread' = [thread EXCEPT ![t] = [thread[t] EXCEPT !.pc = "exited"]]
      /\ hp' = hp /\ heap' = heap /\ init' = init /\ machine' = machine /\ failing' = failing
      /\ fatal' = fatal /\ history' = history
  BY DEF Return, Exited
<1>2. thread \in [Threads -> Records] /\ thread[t] \in Records
  BY <1>0 DEF Types, ThreadType
<1>3. /\ thread'[t] = [thread[t] EXCEPT !.pc = "exited"]
      /\ \A u \in Threads : u # t => thread'[u] = thread[u]
  BY <1>1, <1>2
<1>4. /\ thread'[t] \in Records /\ thread'[t].pc = "exited" /\ thread'[t].run = thread[t].run
      /\ thread'[t].id = thread[t].id /\ thread'[t].init_data = NoRun
  BY <1>1, <1>2, <1>3 DEF Records, PCs
<1>5. Types'
  <2>1. ThreadType'
    BY <1>1, <1>2, <1>4 DEF ThreadType
  <2>2. HistoryType' /\ HeapType'
    BY <1>0, <1>1, HeapIsStructures, HeapNext DEF Types, HistoryType, Histories
  <2> QED BY <1>0, <1>1, <2>1, <2>2 DEF Types, InitType, MachineType, Begun
<1>6. Grown
  <2>1. history.begun \in Nat
    BY <1>0, Orders
  <2> QED BY <1>1, <1>3, <1>4, <2>1 DEF Grown, Begun
<1>7. \A u \in Threads : u # t => Beside(u)
  BY <1>0, <1>1, <1>3, <1>4, OthersBeside
<1>8. \A u \in Threads : u # t => PlacedThread(u)'
  BY <1>0, <1>5, <1>6, <1>7, BesideStep
<1>9. PlacedThread(t)'
  <2>1. /\ ThreadOK(t) /\ Spawned(t) /\ thread[t].run = NoRun /\ Inside(t) = <<>> /\ t = 0
    BY <1>0, <1>1 DEF Placed, ThreadOK
  <2>2. Inside(t)' = <<>>
    BY <1>1, <2>1 DEF Inside
  <2> QED
    BY <1>4, <2>1, <2>2 DEF PlacedThread, ThreadOK, InRun, Seated, Chain, Pending, Spawning, Spawned,
         InLiveRuns, Joined
<1>10. Placed'
  BY <1>0, <1>1, <1>5, <1>6, <1>8, <1>9, PlacedNext DEF Begun
<1>11. thread[t].run = NoRun
  BY <1>0, <1>1 DEF Placed, ThreadOK
<1>12. ASSUME NEW q \in Runs PROVE RunSound(q)'
  <2>1. Aside(q, 0)
    BY <1>0, <1>1, <1>3, <1>4, <1>11, Constants, OthersAside
  <2> QED BY <1>0, <1>5, <1>6, <1>10, <2>1, AsideStep
<1> QED BY <1>5, <1>8, <1>9, <1>12, TogetherNext

(* Process 0 joins one more (bsp.c:385-388). *)
LEMMA JoinStep ==
  ASSUME LifeIInv, NEW t \in Threads, Join(t)
  PROVE  LifeIInv'
<1>0. Types /\ Placed /\ HeapInv /\ LinkedInv /\ \A q \in Runs : RunSound(q)
  BY EachRun DEF LifeIInv
<1>1. PICK c : c = thread[t].count + 1
  OBVIOUS
<1>2. /\ thread[t].pc = "joining" /\ thread[t].count < Run(t).P
      /\ thread[Run(t).threads[thread[t].count]].pc = "exited"
      /\ thread' = [thread EXCEPT ![t] = [thread[t] EXCEPT !.count = c]]
      /\ hp' = hp /\ heap' = heap /\ init' = init /\ machine' = machine /\ failing' = failing
      /\ fatal' = fatal /\ history' = history
  BY <1>1 DEF Join
<1>3. thread \in [Threads -> Records] /\ thread[t] \in Records /\ thread[t].count \in Nat
  BY <1>0, ThreadFields DEF Types, ThreadType
<1>4. /\ thread'[t] = [thread[t] EXCEPT !.count = c]
      /\ \A u \in Threads : u # t => thread'[u] = thread[u]
  BY <1>2, <1>3
<1>5. /\ thread'[t] \in Records /\ thread'[t].pc = thread[t].pc /\ thread'[t].run = thread[t].run
      /\ thread'[t].id = thread[t].id /\ thread'[t].init_data = thread[t].init_data
      /\ thread'[t].thread_data = thread[t].thread_data /\ thread'[t].count = c
  BY <1>1, <1>3, <1>4 DEF Records
<1>6. Types'
  <2>1. ThreadType'
    BY <1>2, <1>3, <1>5 DEF ThreadType
  <2>2. HistoryType' /\ HeapType'
    BY <1>0, <1>2, HeapIsStructures, HeapNext DEF Types, HistoryType, Histories
  <2> QED BY <1>0, <1>2, <2>1, <2>2 DEF Types, InitType, MachineType, Begun
<1>7. Grown
  <2>1. history.begun \in Nat
    BY <1>0, Orders
  <2> QED BY <1>2, <1>4, <1>5, <2>1 DEF Grown, Begun
<1>8. \A u \in Threads : u # t => Beside(u)
  BY <1>0, <1>2, <1>4, <1>5, OthersBeside
<1>9. \A u \in Threads : u # t => PlacedThread(u)'
  BY <1>0, <1>6, <1>7, <1>8, BesideStep
<1>10. PlacedThread(t)'
  <2>1. /\ ThreadOK(t) /\ Seated(t) /\ Chain(t) /\ Pending(t) /\ Spawning(t) /\ Spawned(t)
        /\ InLiveRuns(t) /\ Joined(t) /\ thread[t].init_data = NoRun
    BY <1>0, <1>2 DEF Placed, HeapInv, LinkedInv, ThreadOK
  <2>2. Inside(t)' = Inside(t) /\ Innermost(t)' = Innermost(t)
    BY <1>2 DEF Inside, Innermost
  <2>3. ThreadOK(t)' /\ Spawning(t)' /\ Seated(t)' /\ Chain(t)' /\ Pending(t)'
    BY <1>2, <1>5, <2>1, <2>2 DEF ThreadOK, InRun, Spawning, Seated, Chain, Pending, Begun
  <2>4. Spawned(t)' /\ InLiveRuns(t)'
    BY <1>2, <1>5, <2>1, <2>2 DEF Spawned, InLiveRuns, Live, Begun
  <2>5. Joined(t)'
    <3>1. PICK q, k : q = thread[t].run /\ k = thread[t].count
      OBVIOUS
    <3>2. /\ k \in 1 .. init[q].P /\ k < init[q].P
          /\ \A p \in 1 .. k - 1 : init[q].threads[p] # NoThread /\ thread[init[q].threads[p]].pc = "exited"
          /\ thread[init[q].threads[k]].pc = "exited"
      BY <1>2, <2>1, <3>1 DEF Joined, Run
    <3>3. q \in Runs /\ Begun(q) /\ init[q].P \in Nat /\ ProcsOf(q) = 0 .. init[q].P - 1
      BY <1>0, <1>2, <2>1, <3>1, SeatType DEF ThreadOK
    <3>4. k \in ProcsOf(q) /\ \A p \in 1 .. k - 1 : p \in ProcsOf(q)
      BY <3>2, <3>3
    <3>5. init[q].threads[k] # NoThread
      <4>1. NoThread \notin Threads /\ thread \in [Threads -> Records] /\ init[q].threads[k] \in Threads \cup {NoThread}
        BY <1>0, <1>3, <3>3, <3>4, NoThreadIsNone, SeatOf
      <4>3. Live(q)
        BY <1>0, <1>2, <3>1, <3>3, Constants DEF HeapInv, InLiveRuns
      <4>4. ~ init[q].abort
        <5>1. Stage(q, thread[t].id) = "joining" /\ thread[t].id \in ProcsOf(q)
          BY <1>0, <1>2, <2>1, <3>1, <3>3, OwnStage, SeatType, Constants DEF StageOf
        <5> QED BY <1>0, <3>3, <4>3, <5>1 DEF RunSound, Accounted, Aborted
      <4>5. InStep(q)
        BY <1>0, <3>3, <4>3, <4>4 DEF RunSound, Accounted
      <4>6. PICK b \in Bases : Account(View(q), ProcsOf(q), b, hp, init[q].ended, Due(init[q]), ManualAt[q])
        BY <4>5 DEF InStep
      <4>7. PICK z : z = thread[t].id
        OBVIOUS
      <4>8. Stage(q, z) = "joining" /\ z \in ProcsOf(q)
        BY <1>0, <1>2, <2>1, <3>1, <3>3, <4>7, OwnStage, SeatType, Constants DEF StageOf
      <4>9. /\ View(q)[z].at = "joining" /\ View(q)[k].at = Stage(q, k)
        <5>1. /\ View(q)[z] = SeatView(q, z) /\ View(q)[k] = SeatView(q, k)
          BY <1>0, <3>3, <3>4, <4>8, ViewType
        <5> QED BY <4>8, <5>1 DEF SeatView
      <4>10. Stage(q, k) \in Left \cup {"to_leaving"}
        BY <3>4, <4>6, <4>8, <4>9 DEF Account, EndGate, Left
      <4> QED BY <4>10 DEF Left, Stage
    <3>6. \A p \in 1 .. k : p = k \/ p \in 1 .. k - 1
      BY <3>2
    <3>7. c \in 1 .. init[q].P /\ c - 1 = k
      BY <1>1, <3>1, <3>2, <3>3
    <3>8. \A p \in ProcsOf(q) : init[q].threads[p] # NoThread => init[q].threads[p] \in Threads
      BY <1>0, <3>3, SeatOf
    <3>9. \A p \in 1 .. c - 1 : init[q].threads[p] # NoThread /\ thread'[init[q].threads[p]].pc = "exited"
      <4> SUFFICES ASSUME NEW p \in 1 .. k
                   PROVE  init[q].threads[p] # NoThread /\ thread'[init[q].threads[p]].pc = "exited"
        BY <3>7
      <4>1. init[q].threads[p] # NoThread /\ thread[init[q].threads[p]].pc = "exited" /\ p \in ProcsOf(q)
        BY <3>2, <3>4, <3>5, <3>6
      <4>2. init[q].threads[p] \in Threads /\ init[q].threads[p] # t
        BY <1>2, <3>8, <4>1
      <4> QED BY <1>4, <4>1, <4>2
    <3> QED BY <1>2, <1>5, <3>1, <3>7, <3>9 DEF Joined, Run
  <2> QED BY <2>3, <2>4, <2>5 DEF PlacedThread
<1>11. Placed'
  BY <1>0, <1>2, <1>6, <1>7, <1>9, <1>10, PlacedNext DEF Begun
<1>12. ASSUME NEW q \in Runs PROVE RunSound(q)'
  <2>1. StageOf(thread'[t]) = StageOf(thread[t])
    BY <1>2, <1>5 DEF StageOf
  <2>2. Aside(q, 0)
    BY <1>0, <1>2, <1>4, <1>5, <2>1, OthersAside
  <2> QED BY <1>0, <1>6, <1>7, <1>11, <2>2, AsideStep
<1> QED BY <1>6, <1>9, <1>10, <1>12, TogetherNext

(* What is remembered of a run, and its settings, stay. *)
LEMMA OwnData ==
  ASSUME Types, NEW r \in Runs, Begun(r), DataOf(r), SameData(init[r], init'[r]),
         init'[r].P = init[r].P, history'.since[r] = history.since[r],
         Live(r)' => Live(r),
         \/ Stage(r, 0)' \in DueStages \cup {"exited"}
         \/ Stage(r, 0) \notin DueStages \cup {"exited"}
  PROVE  DataOf(r)'
<1>1. Begun(r)' /\ Due(init'[r]) = Due(init[r])
  BY DEF Begun, SameData, Due, CpFrequency
<1>2. \/ Stage(r, 0)' \in {"to_synced", "synced", "to_delivering", "delivering", "to_due", "due", "exited"}
      \/ Stage(r, 0) \notin {"to_synced", "synced", "to_delivering", "delivering", "to_due", "due", "exited"}
  BY DEF DueStages
<1>3. /\ init'[r].no_cp = init[r].no_cp /\ init'[r].safe_cp = init[r].safe_cp
      /\ init'[r].safe_cp_f = init[r].safe_cp_f
      /\ init'[r].skipped_checkpoints = init[r].skipped_checkpoints
  BY DEF SameData
<1> QED BY <1>1, <1>2, <1>3 DEF DataOf

(* What a thread that is being started knows of its run. *)
LEMMA StartingFacts ==
  ASSUME LifeIInv, NEW t \in Threads, thread[t].pc \in {"born", "ready"},
         NEW r, NEW s, r = thread[t].run, s = thread[t].id
  PROVE  /\ r \in Runs /\ r # NoRun /\ Begun(r) /\ Live(r) /\ s \in ProcsOf(r) /\ s \in Ids /\ s # 0
         /\ ProcsOf(r) \subseteq Ids /\ 0 \in ProcsOf(r) /\ HeapOf(r)
         /\ init[r].threads[s] = t /\ Stage(r, s) = thread[t].pc
         /\ init[r] \in RunOf(init[r].P) /\ init[r].P \in Nat
         /\ Inside(t) = <<>> /\ thread[t].init_data = NoRun /\ t # 0
         /\ s < init[r].P
<1>0. Types /\ Placed /\ HeapInv
  BY DEF LifeIInv
<1>1. /\ thread[t].run # NoRun /\ thread[t].id # 0 /\ Inside(t) = <<>> /\ thread[t].init_data = NoRun
      /\ t # 0 /\ Seated(t) /\ InLiveRuns(t)
  BY <1>0 DEF Placed, ThreadOK, HeapInv
<1>2. /\ r \in Runs /\ Begun(r) /\ s \in ProcsOf(r) /\ init[r] \in RunOf(init[r].P) /\ init[r].P \in Nat
      /\ s < init[r].P
  BY <1>0, <1>1, SeatType DEF Seated
<1>3. ProcsOf(r) = 0 .. init[r].P - 1 /\ ProcsOf(r) \subseteq Ids /\ init[r].P \in 1 .. MaxP
  BY <1>0, <1>2, RunType DEF Types
<1>4. Live(r) /\ HeapOf(r)
  BY <1>0, <1>1, <1>2 DEF HeapInv, InLiveRuns, HeapOfRun
<1>5. init[r].threads[s] = t /\ Stage(r, s) = thread[t].pc
  BY <1>0, <1>1, OwnStage DEF StageOf
<1>6. 0 \in ProcsOf(r)
  BY <1>2, <1>3
<1> QED BY <1>1, <1>2, <1>3, <1>4, <1>5, <1>6

(* The account of a run one of whose processes is still being started. *)
LEMMA StartingAccount ==
  ASSUME Types, Types', Placed, Placed', NEW r \in Runs, Begun(r), NEW s \in ProcsOf(r),
         init'[r].P = init[r].P, init'[r].arrived = init[r].arrived, SameData(init[r], init'[r]),
         init'[r].ended = init[r].ended, init'[r].abort = init[r].abort, hp' = hp,
         history'.syncs[r] = history.syncs[r], history'.manual[r] = history.manual[r],
         \A p \in ProcsOf(r) : p # s => Stage(r, p)' = Stage(r, p),
         Stage(r, s) \in Early, Stage(r, s)' \in Early, Live(r), Accounted(r)
  PROVE  Accounted(r)'
<1>1. /\ Moves(View(r), View(r)', s, ProcsOf(r)) /\ ProcsOf(r)' = ProcsOf(r)
      /\ Step(View(r)[s], View(r)'[s], Stage(r, s)', 0, 0, 0) /\ View(r)[s].at = Stage(r, s)
  BY OwnViews
<1>2. ASSUME init[r].abort PROVE Aborted(r)'
  <2>1. Aborted(r)
    BY <1>2 DEF Accounted
  <2>2. ASSUME NEW p \in ProcsOf(r)
        PROVE  /\ Stage(r, p)' \notin {"synced", "delivering", "checkpointing", "ended", "leaving", "joining"}
               /\ p = 0 => Stage(r, p)' \notin {"due", "manual"}
    BY <2>1, <2>2 DEF Aborted, Early
  <2> QED BY <1>1, <2>2 DEF Aborted
<1>3. ASSUME ~ init[r].abort PROVE InStep(r)'
  <2>1. PICK b \in Bases : Account(View(r), ProcsOf(r), b, hp, init[r].ended, Due(init[r]), ManualAt[r])
    BY <1>3 DEF Accounted, InStep
  <2>2. PICK h, en, du, ma, S, V, W, to :
          /\ h = hp /\ en = init[r].ended /\ du = Due(init[r]) /\ ma = ManualAt[r] /\ S = ProcsOf(r)
          /\ V = View(r) /\ W = View(r)' /\ to = Stage(r, s)'
    OBVIOUS
  <2>3. init[r].ended \in BOOLEAN /\ Due(init'[r]) = Due(init[r])
    BY RunType, RunFields DEF Types, SameData, Due, CpFrequency
  <2>4. h \in BOOLEAN /\ en \in BOOLEAN /\ du \in BOOLEAN
    BY <2>2, <2>3, DueIsBoolean DEF Types
  <2>5. Account(V, S, b, h, en, du, ma)
    BY <2>1, <2>2
  <2>6. Moves(V, W, s, S) /\ Step(V[s], W[s], to, 0, 0, 0) /\ V[s].at \in Early /\ to \in Early
    BY <1>1, <2>2
  <2>7. Account(W, S, b, h, en, du, ma)
    BY <2>4, <2>5, <2>6, StartingMove
  <2> QED BY <1>1, <2>2, <2>3, <2>7 DEF InStep
<1> QED BY <1>2, <1>3 DEF Accounted

(* A new thread allocates its data and frees its descriptor
   (mcbsp.c:649-699). *)
LEMMA InitializeThreadDataStep ==
  ASSUME LifeIInv, NEW t \in Threads, InitializeThreadData(t)
  PROVE  LifeIInv'
<1>0. Types /\ Placed /\ HeapInv /\ LinkedInv /\ \A q \in Runs : RunSound(q)
  BY EachRun DEF LifeIInv
<1>1. PICK r, s : r = thread[t].run /\ s = thread[t].id
  OBVIOUS
<1>2. /\ thread[t].pc = "born" /\ thread' = [thread EXCEPT ![t] = [thread[t] EXCEPT !.pc = "ready"]]
      /\ heap' = (heap \ {Descriptor(r, s)}) \cup {ThreadData(r, s), Queues(r, s)}
      /\ hp' = hp /\ init' = init /\ machine' = machine /\ failing' = failing
      /\ fatal' = fatal /\ history' = history
  BY <1>1 DEF InitializeThreadData
<1>3. thread \in [Threads -> Records] /\ thread[t] \in Records
  BY <1>0 DEF Types, ThreadType
<1>4. /\ thread'[t] = [thread[t] EXCEPT !.pc = "ready"]
      /\ \A u \in Threads : u # t => thread'[u] = thread[u]
  BY <1>2, <1>3
<1>5. /\ thread'[t] \in Records /\ thread'[t].pc = "ready" /\ thread'[t].run = thread[t].run
      /\ thread'[t].id = thread[t].id /\ thread'[t].init_data = thread[t].init_data
      /\ thread'[t].thread_data = thread[t].thread_data
  BY <1>3, <1>4 DEF Records, PCs
<1>6. /\ r \in Runs /\ r # NoRun /\ Begun(r) /\ Live(r) /\ s \in ProcsOf(r) /\ s \in Ids /\ s # 0
      /\ ProcsOf(r) \subseteq Ids /\ 0 \in ProcsOf(r) /\ HeapOf(r) /\ Stage(r, s) = "born"
      /\ init[r].threads[s] = t /\ Inside(t) = <<>> /\ thread[t].init_data = NoRun /\ t # 0
  BY <1>1, <1>2, StartingFacts
<1>7. Types'
  <2>1. ThreadType'
    BY <1>2, <1>3, <1>5 DEF ThreadType
  <2>2. HistoryType'
    BY <1>0, <1>2 DEF Types, HistoryType, Histories
  <2>3. HeapType'
    BY <1>0, <1>2, <1>6, StructuresOf, HeapIsStructures, HeapNext DEF Types
  <2> QED BY <1>0, <1>2, <2>1, <2>2, <2>3 DEF Types, InitType, MachineType, Begun
<1>8. Grown
  <2>1. history.begun \in Nat
    BY <1>0, Orders
  <2> QED BY <1>2, <1>4, <1>5, <2>1 DEF Grown, Begun
<1>9. \A q \in Runs : InitData(q) \in heap' <=> InitData(q) \in heap
  BY <1>2, StructuresDiffer
<1>10. \A u \in Threads : u # t => PlacedThread(u)'
  <2>1. \A u \in Threads : u # t => Beside(u)
    BY <1>0, <1>2, <1>4, <1>5, <1>9, OthersBeside
  <2> QED BY <1>0, <1>7, <1>8, <2>1, BesideStep
<1>11. PlacedThread(t)'
  <2>1. /\ ThreadOK(t) /\ Seated(t) /\ Chain(t) /\ Spawned(t) /\ InLiveRuns(t)
    BY <1>0 DEF Placed, HeapInv
  <2>2. Inside(t)' = <<>>
    BY <1>2, <1>6 DEF Inside
  <2>3. ThreadOK(t)' /\ Spawning(t)' /\ Seated(t)' /\ Chain(t)' /\ Pending(t)' /\ Joined(t)'
    BY <1>1, <1>2, <1>5, <1>6, <2>1, <2>2 DEF ThreadOK, InRun, Spawning, Seated, Chain, Pending, Begun, Joined
  <2>4. Spawned(t)'
    BY <1>2, <1>5, <2>1 DEF Spawned, Begun
  <2>5. InLiveRuns(t)'
    BY <1>1, <1>2, <1>5, <1>6, <1>9, <2>2 DEF InLiveRuns, Live, Begun
  <2> QED BY <2>3, <2>4, <2>5 DEF PlacedThread
<1>12. Placed'
  BY <1>0, <1>2, <1>7, <1>8, <1>10, <1>11, PlacedNext DEF Begun
<1>13. ASSUME NEW q \in Runs, q # r PROVE RunSound(q)'
  <2>1. /\ \A o \in heap : o[2] = q => o \in heap'
        /\ \A o \in heap' : o[2] = q => o \in heap
    BY <1>2, <1>13, StructuresDiffer
  <2>2. Aside(q, 0)
    BY <1>0, <1>1, <1>2, <1>4, <1>5, <1>13, <2>1, OthersAside
  <2> QED BY <1>0, <1>7, <1>8, <1>12, <2>2, AsideStep
<1>14. /\ Stage(r, s)' = "ready" /\ \A p \in ProcsOf(r) : p # s => Stage(r, p)' = Stage(r, p)
  <2>1. Stage(r, s)' = "ready"
    BY <1>1, <1>2, <1>5, <1>6, NoThreadIsNone DEF Stage, StageOf
  <2>2. ASSUME NEW p \in ProcsOf(r), p # s PROVE Stage(r, p)' = Stage(r, p)
    <3>1. init[r].threads[p] # NoThread => init[r].threads[p] \in Threads
      BY <1>0, <1>6, SeatOf
    <3> QED BY <1>1, <1>2, <1>4, <1>5, <2>2, <3>1, StageSame
  <2> QED BY <2>1, <2>2
<1>15. Live(r)' /\ ProcsOf(r)' = ProcsOf(r) /\ Begun(r)'
  BY <1>2, <1>6, <1>9 DEF Live, Begun, ProcsOf
<1>16. RunSound(r)'
  <2>1. RunOK(r)'
    BY <1>6, <1>12 DEF Placed
  <2>2. HeapOfRun(r)'
    <3>1. ASSUME NEW p \in ProcsOf(r), p # s PROVE HeapOfSeat(r, p)'
      <4>1. HeapOfSeat(r, p)
        BY <1>6, <3>1 DEF HeapOf
      <4>2. /\ Descriptor(r, p) \in heap' <=> Descriptor(r, p) \in heap
            /\ ThreadData(r, p) \in heap' <=> ThreadData(r, p) \in heap
            /\ Queues(r, p) \in heap' <=> Queues(r, p) \in heap
        BY <1>2, <3>1, StructuresDiffer
      <4> QED BY <1>2, <1>14, <3>1, <4>1, <4>2 DEF HeapOfSeat, Descriptor, ThreadData, Queues
    <3>2. HeapOfSeat(r, s)'
      <4>1. Descriptor(r, s) \notin heap' /\ ThreadData(r, s) \in heap' /\ Queues(r, s) \in heap'
        BY <1>2, StructuresDiffer
      <4> QED BY <1>14, <4>1 DEF HeapOfSeat, Descriptor, ThreadData, Queues
    <3>3. SharedArrays(r) \in heap'
      BY <1>2, <1>6, StructuresDiffer DEF HeapOf
    <3>4. ASSUME NEW p \in Ids \ ProcsOf(r)
          PROVE  {Descriptor(r, p), ThreadData(r, p), Queues(r, p)} \cap heap' = {}
      <4>1. {Descriptor(r, p), ThreadData(r, p), Queues(r, p)} \cap heap = {} /\ p # s
        BY <1>6, <3>4 DEF HeapOf
      <4> QED BY <1>2, <4>1, StructuresDiffer
    <3>5. HeapOf(r)'
      BY <1>15, <3>1, <3>2, <3>3, <3>4 DEF HeapOf, SharedArrays, Descriptor, ThreadData, Queues
    <3> QED BY <1>15, <3>5 DEF HeapOfRun
  <2>3. Linked(r)'
    <3>1. Linked(r)
      BY <1>0, <1>6 DEF RunSound
    <3>2. \A p \in ProcsOf(r) : p \in init[r].threadData <=> Stage(r, p)' \notin {"unborn", "born", "ready"}
      BY <1>6, <1>14, <3>1 DEF Linked
    <3> QED BY <1>2, <1>15, <3>2 DEF Linked
  <2>4. SameData(init[r], init'[r])
    BY <1>2 DEF SameData
  <2>5. DataOf(r)'
    <3>1. Stage(r, 0)' = Stage(r, 0) /\ DataOf(r)
      BY <1>0, <1>6, <1>14 DEF RunSound
    <3> QED BY <1>0, <1>2, <1>6, <2>4, <3>1, OwnData
  <2>6. Accounted(r)'
    <3>1. Accounted(r) /\ Stage(r, s) \in Early /\ Stage(r, s)' \in Early
      BY <1>0, <1>6, <1>14 DEF RunSound, Early
    <3> QED BY <1>0, <1>2, <1>6, <1>7, <1>12, <1>14, <2>4, <3>1, StartingAccount
  <2> QED BY <2>1, <2>2, <2>3, <2>5, <2>6 DEF RunSound
<1> QED BY <1>7, <1>10, <1>11, <1>13, <1>16, TogetherNext

(* The structures of a run stay when its processes need what they needed. *)
LEMMA SameHeapOfRun ==
  ASSUME NEW r, Live(r), HeapOf(r), Begun(r)', init'[r].P = init[r].P, init'[r].abort = init[r].abort,
         \A o : o[2] = r => (o \in heap' <=> o \in heap),
         \A p \in ProcsOf(r) :
           \/ Stage(r, p)' = Stage(r, p)
           \/ /\ Stage(r, p) \notin {"unborn", "born", "joining", "exited"}
              /\ Stage(r, p)' \notin {"unborn", "born", "joining", "exited"}
  PROVE  HeapOfRun(r)' /\ Live(r)'
<1>1. Live(r)' /\ ProcsOf(r)' = ProcsOf(r)
  BY DEF Live, ProcsOf, InitData
<1>2. ASSUME NEW p \in ProcsOf(r) PROVE HeapOfSeat(r, p)'
  <2>1. HeapOfSeat(r, p)
    BY DEF HeapOf
  <2> QED BY <1>2, <2>1 DEF HeapOfSeat, Descriptor, ThreadData, Queues
<1>3. /\ SharedArrays(r) \in heap'
      /\ \A p \in Ids \ ProcsOf(r) : {Descriptor(r, p), ThreadData(r, p), Queues(r, p)} \cap heap' = {}
  BY DEF HeapOf, SharedArrays, Descriptor, ThreadData, Queues
<1>4. HeapOf(r)'
  BY <1>1, <1>2, <1>3 DEF HeapOf, SharedArrays, Descriptor, ThreadData, Queues
<1> QED BY <1>1, <1>4 DEF HeapOfRun

(* It makes its data known (mcbsp.c:458-474). *)
LEMMA LinkThreadDataStep ==
  ASSUME LifeIInv, NEW t \in Threads, LinkThreadData(t)
  PROVE  LifeIInv'
<1>0. Types /\ Placed /\ HeapInv /\ LinkedInv /\ \A q \in Runs : RunSound(q)
  BY EachRun DEF LifeIInv
<1>1. PICK r, s, j : r = thread[t].run /\ s = thread[t].id /\ j = [init[r] EXCEPT !.threadData = init[r].threadData \cup {s}]
  OBVIOUS
<1>2. /\ thread[t].pc = "ready" /\ thread' = [thread EXCEPT ![t] = [thread[t] EXCEPT !.pc = "linked", !.thread_data = <<r, s>>]]
      /\ history' = [history EXCEPT !.inside[t] = Append(@, <<r, s>>)] /\ init' = [init EXCEPT ![r] = j]
      /\ hp' = hp /\ heap' = heap /\ machine' = machine /\ failing' = failing /\ fatal' = fatal
  BY <1>1 DEF LinkThreadData
<1>3. thread \in [Threads -> Records] /\ thread[t] \in Records
  BY <1>0 DEF Types, ThreadType
<1>4. /\ thread'[t] = [thread[t] EXCEPT !.pc = "linked", !.thread_data = <<r, s>>]
      /\ \A u \in Threads : u # t => thread'[u] = thread[u]
  BY <1>2, <1>3
<1>6. /\ r \in Runs /\ r # NoRun /\ Begun(r) /\ Live(r) /\ s \in ProcsOf(r) /\ s \in Ids /\ s # 0
      /\ ProcsOf(r) \subseteq Ids /\ 0 \in ProcsOf(r) /\ HeapOf(r) /\ Stage(r, s) = "ready"
      /\ init[r].threads[s] = t /\ Inside(t) = <<>> /\ thread[t].init_data = NoRun /\ t # 0
      /\ init[r] \in RunOf(init[r].P) /\ s < init[r].P /\ init[r].P \in Nat /\ ProcsOf(r) = 0 .. init[r].P - 1
  BY <1>1, <1>2, StartingFacts DEF ProcsOf
<1>5. /\ thread'[t] \in Records /\ thread'[t].pc = "linked" /\ thread'[t].run = thread[t].run
      /\ thread'[t].id = thread[t].id /\ thread'[t].init_data = thread[t].init_data
      /\ thread'[t].thread_data = <<r, s>>
  <2>1. <<r, s>> \in Seats
    BY <1>6 DEF Seats
  <2> QED BY <1>3, <1>4, <2>1 DEF Records, PCs
<1>7. /\ j \in RunOf(init[r].P) /\ j.P = init[r].P /\ j.threads = init[r].threads /\ j.abort = init[r].abort
      /\ j.prev_data = init[r].prev_data /\ SameData(init[r], j) /\ j.arrived = init[r].arrived
      /\ j.ended = init[r].ended /\ j.threadData = init[r].threadData \cup {s}
  BY <1>1, <1>6 DEF RunOf, SameData
<1>8. InitType' /\ init'[r] = j /\ \A q \in Runs : q # r => init'[q] = init[q]
  BY <1>0, <1>2, <1>6, <1>7, InitUpdate DEF Types
<1>9. /\ HistoryType' /\ Inside(t)' = <<<<r, s>>>> /\ history'.begun = history.begun
      /\ history'.syncs = history.syncs /\ history'.manual = history.manual /\ history'.since = history.since
      /\ \A u \in Threads : u # t => history'.inside[u] = history.inside[u]
  <2>1. history \in Histories /\ history.inside \in [Threads -> Seq(Runs \X Ids)]
    BY <1>0 DEF Types, HistoryType, Histories
  <2>2. PICK L : L = [history.inside EXCEPT ![t] = Append(history.inside[t], <<r, s>>)]
    OBVIOUS
  <2>3. history' = [history EXCEPT !.inside = L]
    BY <1>2, <2>2
  <2>4. Append(history.inside[t], <<r, s>>) \in Seq(Runs \X Ids) /\ history.inside[t] = <<>>
    BY <1>6, <2>1 DEF Inside
  <2>5. L \in [Threads -> Seq(Runs \X Ids)] /\ L[t] = Append(history.inside[t], <<r, s>>)
        /\ \A u \in Threads : u # t => L[u] = history.inside[u]
    BY <2>1, <2>2, <2>4
  <2>6. L[t] = <<<<r, s>>>>
    BY <2>4, <2>5
  <2> QED BY <2>1, <2>3, <2>5, <2>6 DEF HistoryType, Histories, Inside
<1>10. Types'
  <2>1. ThreadType'
    BY <1>2, <1>3, <1>5 DEF ThreadType
  <2>2. HeapType'
    BY <1>0, <1>2, HeapIsStructures, HeapNext DEF Types
  <2> QED BY <1>0, <1>2, <1>8, <1>9, <2>1, <2>2 DEF Types, MachineType
<1>11. \A q \in Runs : /\ init'[q].P = init[q].P /\ init'[q].threads = init[q].threads
                       /\ init'[q].abort = init[q].abort /\ init'[q].prev_data = init[q].prev_data
                       /\ (Begun(q)' <=> Begun(q)) /\ (Live(q)' <=> Live(q)) /\ ProcsOf(q)' = ProcsOf(q)
  BY <1>2, <1>7, <1>8 DEF Begun, Live, ProcsOf, InitData
<1>12. Grown
  <2>1. history.begun \in Nat
    BY <1>0, Orders
  <2>2. \A v \in Threads : /\ thread[v].pc = "exited" => thread'[v].pc = "exited"
                           /\ thread[v].pc # "none" => thread'[v].pc # "none"
    BY <1>2, <1>4, <1>5
  <2> QED BY <1>9, <1>11, <2>1, <2>2 DEF Grown
<1>13. \A u \in Threads : u # t => PlacedThread(u)'
  <2>1. \A u \in Threads : u # t => Beside(u)
    BY <1>0, <1>2, <1>4, <1>5, <1>9, <1>11, OthersBeside
  <2> QED BY <1>0, <1>10, <1>12, <2>1, BesideStep
<1>14. PlacedThread(t)'
  <2>1. /\ ThreadOK(t) /\ Seated(t) /\ Chain(t) /\ Spawned(t) /\ InLiveRuns(t)
    BY <1>0 DEF Placed, HeapInv
  <2>2. PICK L : L = Inside(t)'
    OBVIOUS
  <2>3. L = <<<<r, s>>>> /\ L # <<>> /\ Len(L) = 1 /\ L[1] = <<r, s>> /\ Last(L) = <<r, s>>
    BY <1>9, <2>2 DEF Last
  <2>4. ThreadOK(t)' /\ Spawning(t)' /\ Pending(t)' /\ Joined(t)'
    BY <1>1, <1>5, <1>6, <2>2, <2>3 DEF ThreadOK, InRun, LocalOK, Spawning, Pending, Joined
  <2>5. Seated(t)'
    BY <1>1, <1>2, <1>5, <1>6, <1>11, <2>1 DEF Seated
  <2>6. Chain(t)'
    <3>1. /\ Begun(L[1][1])' /\ L[1][2] < init'[L[1][1]].P /\ init'[L[1][1]].threads[L[1][2]] = t /\ L[1][2] # 0
      BY <1>6, <1>11, <2>3
    <3>2. \A k \in 1 .. Len(L) : k = 1
      BY <2>3
    <3>3. \A k \in 1 .. Len(L) - 1 : FALSE
      BY <2>3
    <3> QED BY <1>6, <2>2, <3>1, <3>2, <3>3 DEF Chain
  <2>7. Spawned(t)'
    BY <1>2, <1>5, <1>11, <2>1 DEF Spawned
  <2>8. InLiveRuns(t)'
    <3>1. \A k \in 1 .. Len(L) : k = 1
      BY <2>3
    <3>2. L[1][1] = r
      BY <2>3
    <3> QED BY <1>1, <1>5, <1>6, <1>11, <2>2, <3>1, <3>2 DEF InLiveRuns
  <2> QED BY <2>4, <2>5, <2>6, <2>7, <2>8 DEF PlacedThread
<1>15. Placed'
  BY <1>0, <1>10, <1>11, <1>12, <1>13, <1>14, PlacedNext
<1>16. ASSUME NEW q \in Runs, q # r PROVE RunSound(q)'
  <2>1. Aside(q, 0)
    BY <1>0, <1>1, <1>2, <1>4, <1>5, <1>8, <1>9, <1>16, OthersAside
  <2> QED BY <1>0, <1>10, <1>12, <1>15, <2>1, AsideStep
<1>17. /\ Stage(r, s)' = "linked" /\ \A p \in ProcsOf(r) : p # s => Stage(r, p)' = Stage(r, p)
  <2>1. Stage(r, s)' = "linked"
    BY <1>1, <1>5, <1>6, <1>11, NoThreadIsNone DEF Stage, StageOf
  <2>2. ASSUME NEW p \in ProcsOf(r), p # s PROVE Stage(r, p)' = Stage(r, p)
    <3>1. init[r].threads[p] # NoThread => init[r].threads[p] \in Threads
      BY <1>0, <1>6, SeatOf
    <3>2. init'[r].threads[p] = init[r].threads[p]
      BY <1>6, <1>11
    <3>3. CASE init[r].threads[p] = t
      BY <1>1, <1>5, <2>2, <3>2, <3>3, StageSame
    <3>4. CASE init[r].threads[p] # t
      <4>1. PICK u : u = init[r].threads[p]
        OBVIOUS
      <4>2. u # NoThread => thread'[u] = thread[u]
        BY <1>4, <3>1, <3>4, <4>1
      <4> QED BY <3>2, <4>1, <4>2, StageSame
    <3> QED BY <3>3, <3>4
  <2> QED BY <2>1, <2>2
<1>18. RunSound(r)'
  <2>1. RunOK(r)'
    BY <1>6, <1>15 DEF Placed
  <2>2. HeapOfRun(r)'
    <3>1. /\ \A o : o[2] = r => (o \in heap' <=> o \in heap)
          /\ \A p \in ProcsOf(r) :
               \/ Stage(r, p)' = Stage(r, p)
               \/ /\ Stage(r, p) \notin {"unborn", "born", "joining", "exited"}
                  /\ Stage(r, p)' \notin {"unborn", "born", "joining", "exited"}
      BY <1>2, <1>6, <1>17
    <3> QED BY <1>6, <1>11, <3>1, SameHeapOfRun
  <2>3. Linked(r)'
    <3>1. Linked(r)
      BY <1>0, <1>6 DEF RunSound
    <3>2. \A p \in ProcsOf(r) : p \in init'[r].threadData <=> Stage(r, p)' \notin {"unborn", "born", "ready"}
      BY <1>6, <1>7, <1>8, <1>17, <3>1 DEF Linked
    <3> QED BY <1>6, <1>11, <3>2 DEF Linked
  <2>4. SameData(init[r], init'[r])
    BY <1>7, <1>8
  <2>5. DataOf(r)'
    <3>1. Stage(r, 0)' = Stage(r, 0) /\ DataOf(r)
      BY <1>0, <1>6, <1>17 DEF RunSound
    <3> QED BY <1>0, <1>6, <1>9, <1>11, <2>4, <3>1, OwnData
  <2>6. Accounted(r)'
    <3>1. Accounted(r) /\ Stage(r, s) \in Early /\ Stage(r, s)' \in Early
      BY <1>0, <1>6, <1>17 DEF RunSound, Early
    <3> QED
      BY <1>0, <1>2, <1>6, <1>7, <1>8, <1>9, <1>10, <1>15, <1>17, <2>4, <3>1, StartingAccount
  <2> QED BY <2>1, <2>2, <2>3, <2>5, <2>6 DEF RunSound
<1> QED BY <1>10, <1>13, <1>14, <1>16, <1>18, TogetherNext

(* What a thread that is in a run knows of it. *)
LEMMA InRunFacts ==
  ASSUME LifeIInv, NEW t \in Threads, thread[t].pc \in InRun \cup {"joining"},
         NEW r, NEW s, r = thread[t].run, s = thread[t].id
  PROVE  /\ r \in Runs /\ r # NoRun /\ Begun(r) /\ Live(r) /\ s \in ProcsOf(r) /\ s \in Ids
         /\ ProcsOf(r) \subseteq Ids /\ 0 \in ProcsOf(r) /\ HeapOf(r)
         /\ init[r].threads[s] = t /\ Stage(r, s) = StageOf(thread[t])
         /\ init[r] \in RunOf(init[r].P) /\ init[r].P \in Nat
         /\ s < init[r].P /\ ProcsOf(r) = 0 .. init[r].P - 1
<1>0. Types /\ Placed /\ HeapInv
  BY DEF LifeIInv
<1>1. thread[t].run # NoRun /\ Seated(t) /\ InLiveRuns(t) /\ thread[t].pc \notin {"spawning", "exited"}
  BY <1>0 DEF Placed, ThreadOK, HeapInv, InRun
<1>2. /\ r \in Runs /\ Begun(r) /\ s \in ProcsOf(r) /\ init[r] \in RunOf(init[r].P) /\ init[r].P \in Nat
      /\ s < init[r].P
  BY <1>0, <1>1, SeatType DEF Seated
<1>3. ProcsOf(r) = 0 .. init[r].P - 1 /\ ProcsOf(r) \subseteq Ids /\ init[r].P \in 1 .. MaxP
  BY <1>0, <1>2, RunType DEF Types
<1>4. Live(r) /\ HeapOf(r)
  BY <1>0, <1>1, <1>2 DEF HeapInv, InLiveRuns, HeapOfRun
<1>5. init[r].threads[s] = t /\ Stage(r, s) = StageOf(thread[t])
  BY <1>0, <1>1, OwnStage
<1>6. 0 \in ProcsOf(r)
  BY <1>2, <1>3
<1> QED BY <1>1, <1>2, <1>3, <1>4, <1>5, <1>6

(* A thread moves on in its run: only its own process changes its stage. *)
LEMMA OwnStages ==
  ASSUME Types, Placed, NEW t \in Threads, NEW r \in Runs, NEW s, r = thread[t].run, s = thread[t].id,
         Begun(r), s \in ProcsOf(r), init[r].threads[s] = t, init'[r].threads = init[r].threads,
         thread'[t].run = r, thread'[t].id = s, \A u \in Threads : u # t => thread'[u] = thread[u]
  PROVE  /\ Stage(r, s)' = StageOf(thread'[t])
         /\ \A p \in ProcsOf(r) : p # s => Stage(r, p)' = Stage(r, p)
<1>1. Stage(r, s)' = StageOf(thread'[t])
  BY NoThreadIsNone DEF Stage
<1>2. ASSUME NEW p \in ProcsOf(r), p # s PROVE Stage(r, p)' = Stage(r, p)
  <2>1. init[r].threads[p] # NoThread => init[r].threads[p] \in Threads
    BY <1>2, SeatOf
  <2>2. CASE init[r].threads[p] = t
    BY <1>2, <2>2, StageSame
  <2>3. CASE init[r].threads[p] # t
    <3>1. PICK u : u = init[r].threads[p]
      OBVIOUS
    <3>2. u # NoThread => thread'[u] = thread[u]
      BY <2>1, <2>3, <3>1
    <3> QED BY <3>1, <3>2, StageSame
  <2> QED BY <2>2, <2>3
<1> QED BY <1>1, <1>2

(* A sequence without its last element. *)
LEMMA FrontOf ==
  ASSUME NEW S, NEW L \in Seq(S), L # <<>>
  PROVE  /\ Front(L) \in Seq(S) /\ Len(L) \in Nat /\ Len(L) > 0 /\ Len(Front(L)) = Len(L) - 1
         /\ \A k \in 1 .. Len(L) - 1 : Front(L)[k] = L[k]
         /\ Front(L) # <<>> => Len(L) > 1 /\ Last(Front(L)) = L[Len(L) - 1]
         /\ Front(L) = <<>> => Len(L) = 1
         /\ Last(L) = L[Len(L)]
<1>1. Len(L) \in Nat /\ Len(L) > 0 /\ L \in [1 .. Len(L) -> S]
  BY EmptySeq, LenProperties
<1>2. Front(L) = SubSeq(L, 1, Len(L) - 1)
  BY DEF Front
<1>3. Front(L) \in Seq(S) /\ Len(Front(L)) = Len(L) - 1 /\ \A k \in 1 .. Len(L) - 1 : Front(L)[k] = L[k]
  BY <1>1, <1>2
<1>4. Front(L) # <<>> => Len(L) > 1 /\ Last(Front(L)) = L[Len(L) - 1]
  BY <1>1, <1>3 DEF Last
<1>5. Front(L) = <<>> => Len(L) = 1
  <2>1. Len(Front(L)) = 0 => Len(L) = 1
    <3>1. \A m, n : n \in Nat /\ m = n - 1 /\ m = 0 => n = 1
      OBVIOUS
    <3>2. Len(L) \in Nat /\ Len(Front(L)) = Len(L) - 1
      BY <1>1, <1>3
    <3> QED BY ONLY <3>1, <3>2
  <2>2. Len(<<>>) = 0
    OBVIOUS
  <2> QED BY <2>1, <2>2
<1> QED BY <1>1, <1>3, <1>4, <1>5 DEF Last

(* A process frees its data behind the second barrier of bsp_end
   (mcbsp.c:701-722). *)
LEMMA DestroyThreadDataStep ==
  ASSUME LifeIInv, NEW t \in Threads, DestroyThreadData(t)
  PROVE  LifeIInv'
<1>0. Types /\ Placed /\ HeapInv /\ LinkedInv /\ \A q \in Runs : RunSound(q)
  BY EachRun DEF LifeIInv
<1>1. PICK r, s, to : r = thread[t].run /\ s = thread[t].id /\ to = IF s = 0 THEN "joining" ELSE "exited"
  OBVIOUS
<1>2. /\ thread[t].pc = "leaving" /\ heap' = heap \ {ThreadData(r, s), Queues(r, s)}
      /\ thread' = [thread EXCEPT ![t] = [thread[t] EXCEPT !.thread_data = NoData, !.count = 1, !.pc = to]]
      /\ history' = [history EXCEPT !.inside[t] = Front(@)]
      /\ hp' = hp /\ init' = init /\ machine' = machine /\ failing' = failing /\ fatal' = fatal
  BY <1>1 DEF DestroyThreadData
<1>3. thread \in [Threads -> Records] /\ thread[t] \in Records
  BY <1>0 DEF Types, ThreadType
<1>4. /\ thread'[t] = [thread[t] EXCEPT !.thread_data = NoData, !.count = 1, !.pc = to]
      /\ \A u \in Threads : u # t => thread'[u] = thread[u]
  BY <1>2, <1>3
<1>5. /\ thread'[t] \in Records /\ thread'[t].pc = to /\ thread'[t].run = thread[t].run
      /\ thread'[t].id = thread[t].id /\ thread'[t].init_data = thread[t].init_data
      /\ thread'[t].thread_data = NoData /\ thread'[t].count = 1
  <2>1. to \in PCs /\ NoData \in Seats /\ 1 \in Nat
    BY <1>1 DEF PCs, Seats
  <2> QED BY <1>3, <1>4, <2>1 DEF Records
<1>6. /\ r \in Runs /\ r # NoRun /\ Begun(r) /\ Live(r) /\ s \in ProcsOf(r) /\ s \in Ids
      /\ ProcsOf(r) \subseteq Ids /\ 0 \in ProcsOf(r) /\ HeapOf(r) /\ Stage(r, s) = "leaving"
      /\ init[r].threads[s] = t /\ init[r] \in RunOf(init[r].P) /\ init[r].P \in Nat
      /\ s < init[r].P /\ ProcsOf(r) = 0 .. init[r].P - 1
  BY <1>1, <1>2, InRunFacts DEF InRun, StageOf
<1>7. /\ Inside(t) # <<>> /\ Inside(t) \in Seq(Runs \X Ids) /\ Last(Inside(t)) = <<r, s>>
      /\ thread[t].init_data = NoRun
  BY <1>0, <1>1, <1>2, Orders DEF Placed, ThreadOK, InRun, LocalOK
<1>8. PICK L, F, n : L = Inside(t) /\ F = Front(L) /\ n = Len(L)
  OBVIOUS
<1>9. /\ F \in Seq(Runs \X Ids) /\ n \in Nat /\ n > 0 /\ Len(F) = n - 1
      /\ \A k \in 1 .. n - 1 : F[k] = L[k]
      /\ F # <<>> => n > 1 /\ Last(F) = L[n - 1]
      /\ F = <<>> => n = 1
      /\ L[n] = <<r, s>>
  <2>1. /\ F \in Seq(Runs \X Ids) /\ n \in Nat /\ n > 0 /\ Len(F) = n - 1
        /\ \A k \in 1 .. n - 1 : F[k] = L[k]
        /\ F # <<>> => n > 1 /\ Last(F) = L[n - 1]
        /\ F = <<>> => n = 1
        /\ Last(L) = L[n]
    <3>1. L \in Seq(Runs \X Ids) /\ L # <<>> /\ F = Front(L) /\ n = Len(L)
      BY <1>7, <1>8
    <3>2. PICK S : S = Runs \X Ids
      OBVIOUS
    <3>3. L \in Seq(S)
      BY <3>1, <3>2
    <3>4. /\ F \in Seq(S) /\ n \in Nat /\ n > 0 /\ Len(F) = n - 1
          /\ \A k \in 1 .. n - 1 : F[k] = L[k]
          /\ F # <<>> => n > 1 /\ Last(F) = L[n - 1]
          /\ F = <<>> => n = 1
          /\ Last(L) = L[n]
      <4>1. /\ Front(L) \in Seq(S) /\ Len(L) \in Nat /\ Len(L) > 0 /\ Len(Front(L)) = Len(L) - 1
            /\ \A k \in 1 .. Len(L) - 1 : Front(L)[k] = L[k]
            /\ Front(L) # <<>> => Len(L) > 1 /\ Last(Front(L)) = L[Len(L) - 1]
            /\ Front(L) = <<>> => Len(L) = 1
            /\ Last(L) = L[Len(L)]
        BY <3>1, <3>3, FrontOf
      <4> QED BY <3>1, <4>1
    <3> QED BY <3>2, <3>4
  <2> QED BY <1>7, <1>8, <2>1
<1>10. /\ HistoryType' /\ Inside(t)' = F /\ history'.begun = history.begun
       /\ history'.syncs = history.syncs /\ history'.manual = history.manual /\ history'.since = history.since
       /\ \A u \in Threads : u # t => history'.inside[u] = history.inside[u]
  <2>1. history \in Histories /\ history.inside \in [Threads -> Seq(Runs \X Ids)]
    BY <1>0 DEF Types, HistoryType, Histories
  <2>2. PICK M : M = [history.inside EXCEPT ![t] = F]
    OBVIOUS
  <2>3. history' = [history EXCEPT !.inside = M]
    BY <1>2, <1>8, <2>2 DEF Inside
  <2>4. M \in [Threads -> Seq(Runs \X Ids)] /\ M[t] = F /\ \A u \in Threads : u # t => M[u] = history.inside[u]
    BY <1>9, <2>1, <2>2
  <2> QED BY <2>1, <2>3, <2>4 DEF HistoryType, Histories, Inside
<1>11. Types'
  <2>1. ThreadType'
    BY <1>2, <1>3, <1>5 DEF ThreadType
  <2>2. HeapType'
    BY <1>0, <1>2, HeapIsStructures, HeapNext DEF Types
  <2> QED BY <1>0, <1>2, <1>10, <2>1, <2>2 DEF Types, InitType, MachineType, Begun
<1>12. Grown
  <2>1. history.begun \in Nat
    BY <1>0, Orders
  <2>2. \A v \in Threads : /\ thread[v].pc = "exited" => thread'[v].pc = "exited"
                           /\ thread[v].pc # "none" => thread'[v].pc # "none"
    BY <1>1, <1>2, <1>4, <1>5
  <2> QED BY <1>2, <1>10, <2>1, <2>2 DEF Grown, Begun
<1>13. \A q \in Runs : (InitData(q) \in heap' <=> InitData(q) \in heap) /\ (Live(q)' <=> Live(q))
  BY <1>2, StructuresDiffer DEF Live, Begun, InitData
<1>14. \A u \in Threads : u # t => PlacedThread(u)'
  <2>1. \A u \in Threads : u # t => Beside(u)
    BY <1>0, <1>2, <1>4, <1>5, <1>10, <1>13, OthersBeside
  <2> QED BY <1>0, <1>11, <1>12, <2>1, BesideStep
<1>15. ~ init[r].abort /\ InStep(r)
  <2>1. RunSound(r)
    BY <1>0, <1>6
  <2> QED BY <1>6, <2>1 DEF RunSound, Accounted, Aborted
<1>16. PlacedThread(t)'
  <2>1. /\ ThreadOK(t) /\ Seated(t) /\ Chain(t) /\ Spawned(t) /\ InLiveRuns(t)
    BY <1>0 DEF Placed, HeapInv
  <2>2. Len(L) = n /\ n \in 1 .. n /\ \A k \in 1 .. n - 1 : k \in 1 .. n /\ k + 1 \in 1 .. n
    BY <1>8, <1>9
  <2>3. /\ \A k \in 1 .. n :
             Begun(L[k][1]) /\ L[k][2] < init[L[k][1]].P /\ init[L[k][1]].threads[L[k][2]] = t
        /\ \A k \in 1 .. n - 1 :
             L[k+1][2] = 0 /\ init[L[k+1][1]].prev_data = L[k] /\ L[k][1] < L[k+1][1]
        /\ IF t = 0 THEN L[1][2] = 0 /\ init[L[1][1]].prev_data = NoData ELSE L[1][2] # 0
    BY <1>7, <1>8, <2>1, <2>2 DEF Chain
  <2>4. ASSUME F = <<>> PROVE ThreadOK(t)'
    <3>1. n = 1 /\ L[1] = <<r, s>> /\ Innermost(t)' = NoData
      BY <1>9, <1>10, <2>4 DEF Innermost
    <3>2. (t = 0 <=> s = 0) /\ (t = 0 => init[r].prev_data = NoData)
      BY <2>3, <3>1
    <3>3. ThreadOK(t)'
      BY <1>1, <1>2, <1>5, <1>6, <1>7, <1>10, <2>4, <3>1, <3>2 DEF ThreadOK, InRun
    <3> QED BY <3>3
  <2>5. ASSUME F # <<>> PROVE ThreadOK(t)'
    <3>1. PICK k : k = n - 1
      OBVIOUS
    <3>2. k \in 1 .. n - 1 /\ k + 1 = n /\ Last(F) = L[k]
      BY <1>9, <2>5, <3>1
    <3>3. L[k+1] = <<r, s>> /\ L[k+1][2] = 0 /\ init[L[k+1][1]].prev_data = L[k] /\ L[k][1] < L[k+1][1]
      BY <1>9, <2>3, <3>2
    <3>4. s = 0 /\ init[r].prev_data = Last(F) /\ Last(F)[1] < r /\ Innermost(t)' = Last(F)
      BY <1>10, <2>5, <3>2, <3>3 DEF Innermost
    <3> QED BY <1>1, <1>2, <1>5, <1>6, <1>7, <1>10, <2>5, <3>4 DEF ThreadOK, InRun
  <2>6. ThreadOK(t)'
    BY <2>4, <2>5
  <2>7. Seated(t)' /\ Spawning(t)' /\ Pending(t)' /\ Spawned(t)'
    BY <1>1, <1>2, <1>5, <1>7, <2>1 DEF Seated, Spawning, Pending, Spawned, Begun
  <2>8. Chain(t)'
    <3>1. /\ \A k \in 1 .. n - 1 :
               Begun(F[k][1]) /\ F[k][2] < init[F[k][1]].P /\ init[F[k][1]].threads[F[k][2]] = t
      BY <1>9, <2>2, <2>3
    <3>2. \A k \in 1 .. n - 1 - 1 : k \in 1 .. n - 1 /\ k + 1 \in 1 .. n - 1
      BY <1>9
    <3>3. \A k \in 1 .. n - 1 - 1 :
            F[k+1][2] = 0 /\ init[F[k+1][1]].prev_data = F[k] /\ F[k][1] < F[k+1][1]
      BY <1>9, <2>3, <3>2
    <3>4. F # <<>> => IF t = 0 THEN F[1][2] = 0 /\ init[F[1][1]].prev_data = NoData ELSE F[1][2] # 0
      BY <1>9, <2>3
    <3>5. Len(F) = n - 1
      BY <1>9
    <3> QED BY <1>2, <1>10, <3>1, <3>3, <3>4, <3>5 DEF Chain, Begun
  <2>9. InLiveRuns(t)'
    <3>1. \A k \in 1 .. n - 1 : Live(L[k][1])
      BY <1>8, <2>1, <2>2 DEF InLiveRuns
    <3>2. \A k \in 1 .. n - 1 : L[k] \in Runs \X Ids
      BY <1>7, <1>8, <2>2
    <3>3. \A k \in 1 .. n - 1 : Live(F[k][1])'
      BY <1>9, <1>13, <3>1, <3>2
    <3>4. thread'[t].run = r /\ Live(r)'
      BY <1>1, <1>5, <1>6, <1>13
    <3> QED BY <1>9, <1>10, <3>3, <3>4 DEF InLiveRuns
  <2>10. Joined(t)'
    <3>1. thread'[t].count = 1 /\ 1 \in 1 .. init[r].P /\ \A p \in 1 .. 1 - 1 : FALSE
      BY <1>5, <1>6
    <3> QED BY <1>1, <1>2, <1>5, <3>1 DEF Joined, Run
  <2> QED BY <2>6, <2>7, <2>8, <2>9, <2>10 DEF PlacedThread
<1>17. Placed'
  BY <1>0, <1>2, <1>11, <1>12, <1>14, <1>16, PlacedNext DEF Begun
<1>18. ASSUME NEW q \in Runs, q # r PROVE RunSound(q)'
  <2>1. /\ \A o \in heap : o[2] = q => o \in heap'
        /\ \A o \in heap' : o[2] = q => o \in heap
    BY <1>2, <1>18, StructuresDiffer
  <2>2. Aside(q, 0)
    BY <1>0, <1>1, <1>2, <1>4, <1>5, <1>10, <1>18, <2>1, OthersAside
  <2> QED BY <1>0, <1>11, <1>12, <1>17, <2>2, AsideStep
<1>19. /\ Stage(r, s)' = to /\ \A p \in ProcsOf(r) : p # s => Stage(r, p)' = Stage(r, p)
  <2>1. StageOf(thread'[t]) = to
    BY <1>1, <1>5 DEF StageOf
  <2> QED
    <3>1. thread'[t].run = r /\ thread'[t].id = s /\ init'[r].threads = init[r].threads
      BY <1>1, <1>2, <1>5
    <3>2. /\ Types /\ Placed /\ r \in Runs /\ r = thread[t].run /\ s = thread[t].id /\ Begun(r)
          /\ s \in ProcsOf(r) /\ init[r].threads[s] = t
          /\ \A u \in Threads : u # t => thread'[u] = thread[u]
      BY <1>0, <1>1, <1>4, <1>6
    <3>3. Stage(r, s)' = StageOf(thread'[t])
      BY <3>1, <3>2, OwnStages
    <3>4. \A p \in ProcsOf(r) : p # s => Stage(r, p)' = Stage(r, p)
      BY <3>1, <3>2, OwnStages
    <3> QED BY <2>1, <3>3, <3>4
<1>20. Live(r)' /\ ProcsOf(r)' = ProcsOf(r) /\ Begun(r)'
  BY <1>2, <1>6, <1>13 DEF Live, Begun, ProcsOf
<1>21. RunSound(r)'
  <2>1. RunOK(r)'
    BY <1>6, <1>17 DEF Placed
  <2>2. HeapOfRun(r)'
    <3>1. ASSUME NEW p \in ProcsOf(r), p # s PROVE HeapOfSeat(r, p)'
      <4>1. HeapOfSeat(r, p)
        BY <1>6, <3>1 DEF HeapOf
      <4>2. /\ Descriptor(r, p) \in heap' <=> Descriptor(r, p) \in heap
            /\ ThreadData(r, p) \in heap' <=> ThreadData(r, p) \in heap
            /\ Queues(r, p) \in heap' <=> Queues(r, p) \in heap
        BY <1>2, <3>1, StructuresDiffer
      <4> QED BY <1>2, <1>19, <3>1, <4>1, <4>2 DEF HeapOfSeat, Descriptor, ThreadData, Queues
    <3>2. HeapOfSeat(r, s)'
      <4>1. HeapOfSeat(r, s)
        BY <1>6 DEF HeapOf
      <4>2. Descriptor(r, s) \notin heap' /\ ThreadData(r, s) \notin heap' /\ Queues(r, s) \notin heap'
        BY <1>2, <1>6, <4>1, StructuresDiffer DEF HeapOfSeat
      <4> QED BY <1>1, <1>19, <4>2 DEF HeapOfSeat, Descriptor, ThreadData, Queues
    <3>3. SharedArrays(r) \in heap'
      BY <1>2, <1>6, StructuresDiffer DEF HeapOf
    <3>4. ASSUME NEW p \in Ids \ ProcsOf(r)
          PROVE  {Descriptor(r, p), ThreadData(r, p), Queues(r, p)} \cap heap' = {}
      BY <1>2, <1>6, <3>4 DEF HeapOf
    <3>5. HeapOf(r)'
      BY <1>20, <3>1, <3>2, <3>3, <3>4 DEF HeapOf, SharedArrays, Descriptor, ThreadData, Queues
    <3> QED BY <1>20, <3>5 DEF HeapOfRun
  <2>3. Linked(r)'
    <3>1. Linked(r)
      BY <1>0, <1>6 DEF RunSound
    <3>2. \A p \in ProcsOf(r) : p \in init[r].threadData <=> Stage(r, p)' \notin {"unborn", "born", "ready"}
      BY <1>1, <1>6, <1>19, <3>1 DEF Linked
    <3> QED BY <1>2, <1>20, <3>2 DEF Linked
  <2>4. DataOf(r)'
    <3>1. SameData(init[r], init'[r]) /\ DataOf(r)
      BY <1>0, <1>2, <1>6 DEF SameData, RunSound
    <3>2. \/ Stage(r, 0)' \in DueStages \cup {"exited"}
          \/ Stage(r, 0) \notin DueStages \cup {"exited"}
      BY <1>6, <1>19 DEF DueStages
    <3> QED BY <1>0, <1>2, <1>6, <1>10, <3>1, <3>2, OwnData
  <2>5. InStep(r)'
    <3>1. PICK b \in Bases : Account(View(r), ProcsOf(r), b, hp, init[r].ended, Due(init[r]), ManualAt[r])
      BY <1>15 DEF InStep
    <3>2. PICK h, en, du, ma, S, V, W :
            /\ h = hp /\ en = init[r].ended /\ du = Due(init[r]) /\ ma = ManualAt[r] /\ S = ProcsOf(r)
            /\ V = View(r) /\ W = View(r)'
      OBVIOUS
    <3>3. h \in BOOLEAN /\ en \in BOOLEAN /\ du \in BOOLEAN
      <4>1. init[r].ended \in BOOLEAN
        BY <1>6, RunFields
      <4> QED BY <1>0, <3>2, <4>1, DueIsBoolean DEF Types
    <3>4. Account(V, S, b, h, en, du, ma)
      BY <3>1, <3>2
    <3>5. Moves(V, W, s, S) /\ Step(V[s], W[s], to, 0, 0, 0) /\ V[s].at = "leaving"
      <4>1. /\ Moves(View(r), View(r)', s, ProcsOf(r))
            /\ Step(View(r)[s], View(r)'[s], Stage(r, s)', 0, 0, 0) /\ View(r)[s].at = Stage(r, s)
        BY <1>0, <1>2, <1>6, <1>10, <1>11, <1>17, <1>19, OwnViews
      <4> QED BY <1>6, <1>19, <3>2, <4>1
    <3>6. Account(W, S, b, h, en, du, ma)
      BY <1>1, <3>3, <3>4, <3>5, DestroyMove
    <3> QED BY <1>2, <1>20, <3>2, <3>6 DEF InStep
  <2> QED BY <1>2, <1>15, <2>1, <2>2, <2>3, <2>4, <2>5 DEF RunSound, Accounted
<1> QED BY <1>11, <1>14, <1>16, <1>18, <1>21, TogetherNext

(* A set of naturals has a least element. *)
LEMMA LeastNumber ==
  ASSUME NEW T, T \subseteq Nat, T # {}
  PROVE  \E n \in T : \A m \in T : ~ (m < n)
<1>1. PICK n \in T : \A m \in T : <<m, n>> \notin OpToRel(<, Nat)
  BY WFMin, NatLessThanWellFounded, Zenon
<1> QED BY <1>1, Zenon DEF OpToRel

(* What grows from each place to the next is greatest at the last. *)
LEMMA LastIsGreatest ==
  ASSUME NEW n \in Nat, NEW f, \A k \in 1 .. n : f[k] \in Nat, \A k \in 1 .. n - 1 : f[k] < f[k+1]
  PROVE  \A k \in 1 .. n : f[k] <= f[n]
<1> SUFFICES ASSUME NEW k \in 1 .. n, ~ (f[k] <= f[n]) PROVE FALSE
  OBVIOUS
<1> DEFINE T == {d \in Nat : \E i \in 1 .. n : d = n - i /\ ~ (f[i] <= f[n])}
<1>1. T \subseteq Nat /\ T # {}
  <2>1. n - k \in Nat
    OBVIOUS
  <2> QED BY <2>1
<1> HIDE DEF T
<1>2. PICK d \in T : \A m \in T : ~ (m < d)
  BY <1>1, LeastNumber
<1>3. PICK i \in 1 .. n : d = n - i /\ ~ (f[i] <= f[n])
  BY <1>2 DEF T
<1>4. f[n] \in Nat /\ f[i] \in Nat /\ n \in 1 .. n
  <2>1. n \in 1 .. n
    OBVIOUS
  <2> QED BY <2>1
<1>5. i # n /\ i \in 1 .. n - 1 /\ i + 1 \in 1 .. n
  BY <1>3, <1>4
<1>6. f[i] < f[i+1] /\ f[i+1] \in Nat
  BY <1>5
<1>7. ~ (f[i+1] <= f[n])
  BY <1>3, <1>4, <1>6
<1>8. n - (i + 1) \in T /\ n - (i + 1) < d
  <2>1. n - (i + 1) \in Nat /\ n - (i + 1) < d
    BY <1>3, <1>5
  <2> QED BY <1>5, <1>7, <2>1 DEF T
<1> QED BY <1>2, <1>8

(* All but the thread that ends a run have exited for it. *)
LEMMA AllHaveJoined ==
  ASSUME LifeIInv, NEW t \in Threads, thread[t].pc = "joining", thread[t].count = init[thread[t].run].P,
         NEW r, r = thread[t].run
  PROVE  /\ r \in Runs /\ Begun(r) /\ Live(r) /\ ~ init[r].abort /\ thread[t].id = 0 /\ init[r].threads[0] = t
         /\ \A p \in ProcsOf(r) : p # 0 =>
              /\ init[r].threads[p] \in Threads /\ thread[init[r].threads[p]].pc = "exited"
              /\ thread[init[r].threads[p]].run = r /\ thread[init[r].threads[p]].id = p
              /\ Inside(init[r].threads[p]) = <<>>
<1>0. Types /\ Placed /\ LinkedInv /\ \A q \in Runs : RunSound(q)
  BY EachRun DEF LifeIInv
<1>1. thread[t].id = 0 /\ ThreadOK(t) /\ Joined(t)
  BY <1>0 DEF Placed, ThreadOK, LinkedInv
<1>2. PICK s : s = thread[t].id
  OBVIOUS
<1>3. /\ r \in Runs /\ r # NoRun /\ Begun(r) /\ Live(r) /\ s \in ProcsOf(r) /\ Stage(r, s) = StageOf(thread[t])
      /\ init[r].threads[s] = t /\ init[r].P \in Nat /\ ProcsOf(r) = 0 .. init[r].P - 1
  BY <1>2, InRunFacts
<1>4. Stage(r, s) = "joining"
  BY <1>3 DEF StageOf
<1>5. RunSound(r)
  BY <1>0, <1>3
<1>6. ~ init[r].abort /\ InStep(r)
  BY <1>3, <1>4, <1>5 DEF RunSound, Accounted, Aborted
<1>7. PICK b \in Bases : Account(View(r), ProcsOf(r), b, hp, init[r].ended, Due(init[r]), ManualAt[r])
  BY <1>6 DEF InStep
<1>8. ASSUME NEW p \in ProcsOf(r), p # 0
      PROVE  /\ init[r].threads[p] \in Threads /\ thread[init[r].threads[p]].pc = "exited"
             /\ thread[init[r].threads[p]].run = r /\ thread[init[r].threads[p]].id = p
             /\ Inside(init[r].threads[p]) = <<>>
  <2>1. View(r)[s] = SeatView(r, s) /\ View(r)[p] = SeatView(r, p)
    BY <1>0, <1>3, <1>8, ViewType
  <2>2. View(r)[s].at = "joining" /\ View(r)[p].at = Stage(r, p)
    BY <1>4, <2>1 DEF SeatView
  <2>3. Stage(r, p) \in {"leaving", "joining", "exited", "to_leaving"}
    BY <1>3, <1>7, <1>8, <2>2 DEF Account, EndGate, Left
  <2>4. PICK u : u = init[r].threads[p]
    OBVIOUS
  <2>5. u # NoThread /\ thread[u].run = r /\ thread[u].id = p
    BY <2>3, <2>4 DEF Stage
  <2>6. u \in Threads
    BY <1>0, <1>3, <1>8, <2>4, <2>5, SeatOf
  <2>7. p \in 1 .. init[r].P - 1
    BY <1>3, <1>8
  <2>8. thread[u].pc = "exited"
    BY <1>1, <2>4, <2>7 DEF Joined, Run
  <2>9. Inside(u) = <<>>
    BY <1>0, <1>3, <1>6, <2>5, <2>6, <2>8 DEF Placed, ThreadOK
  <2> QED BY <2>4, <2>5, <2>6, <2>8, <2>9
<1> QED BY <1>1, <1>2, <1>3, <1>6, <1>8

(* A run inside which a thread is began before the one it is about to end. *)
LEMMA InsideBefore ==
  ASSUME Types, Placed, NEW t \in Threads, NEW r \in Runs, Inside(t) # <<>> => Last(Inside(t))[1] < r
  PROVE  \A k \in 1 .. Len(Inside(t)) : Inside(t)[k][1] # r
<1> SUFFICES ASSUME Inside(t) # <<>> PROVE \A k \in 1 .. Len(Inside(t)) : Inside(t)[k][1] # r
  OBVIOUS
<1>1. PICK L, n, f : L = Inside(t) /\ n = Len(L) /\ f = [k \in 1 .. n |-> L[k][1]]
  OBVIOUS
<1>2. L \in Seq(Runs \X Ids) /\ n \in Nat /\ L # <<>> /\ Chain(t)
  BY <1>1, Orders DEF Placed
<1>3. \A k \in 1 .. n : L[k] \in Runs \X Ids
  BY <1>1, <1>2
<1>4. \A k \in 1 .. n : f[k] \in Nat /\ f[k] = L[k][1]
  BY <1>1, <1>3, Constants
<1>5. \A k \in 1 .. n - 1 : f[k] < f[k+1]
  <2>1. ASSUME NEW k \in 1 .. n - 1 PROVE L[k][1] < L[k+1][1]
    BY <1>1, <1>2 DEF Chain
  <2>2. \A k \in 1 .. n - 1 : k \in 1 .. n /\ k + 1 \in 1 .. n
    BY <1>2
  <2> QED BY <1>4, <2>1, <2>2
<1>6. \A k \in 1 .. n : f[k] <= f[n]
  BY <1>2, <1>4, <1>5, LastIsGreatest
<1>7. n \in 1 .. n /\ Last(L) = L[n]
  BY <1>1, <1>2 DEF Last
<1>8. f[n] < r /\ r \in Nat
  BY <1>1, <1>4, <1>7, Constants
<1>9. ASSUME NEW k \in 1 .. n PROVE f[k] # r
  BY <1>4, <1>6, <1>7, <1>8
<1> QED BY <1>1, <1>4, <1>9

(* Process 0 frees what the run shared and goes back to the run around it
   (bsp.c:390-420). *)
LEMMA FinishStep ==
  ASSUME LifeIInv, NEW t \in Threads, Finish(t)
  PROVE  LifeIInv'
<1>0. Types /\ Placed /\ HeapInv /\ LinkedInv /\ \A q \in Runs : RunSound(q)
  BY EachRun DEF LifeIInv
<1>1. PICK r, prev, to : r = thread[t].run /\ prev = init[r].prev_data /\ to = IF prev = NoData THEN "main" ELSE "user"
  OBVIOUS
<1>2. /\ thread[t].pc = "joining" /\ thread[t].count = init[r].P
      /\ heap' = heap \ {InitData(r), SharedArrays(r)}
      /\ thread' = [thread EXCEPT ![t] = [thread[t] EXCEPT !.thread_data = prev, !.run = prev[1], !.id = prev[2], !.pc = to]]
      /\ hp' = hp /\ init' = init /\ machine' = machine /\ failing' = failing /\ fatal' = fatal
      /\ history' = history
  BY <1>1 DEF Finish, Run
<1>3. thread \in [Threads -> Records] /\ thread[t] \in Records
  BY <1>0 DEF Types, ThreadType
<1>4. /\ thread'[t] = [thread[t] EXCEPT !.thread_data = prev, !.run = prev[1], !.id = prev[2], !.pc = to]
      /\ \A u \in Threads : u # t => thread'[u] = thread[u]
  BY <1>2, <1>3
<1>5. /\ r \in Runs /\ Begun(r) /\ Live(r) /\ ~ init[r].abort /\ thread[t].id = 0 /\ init[r].threads[0] = t
      /\ \A p \in ProcsOf(r) : p # 0 =>
              /\ init[r].threads[p] \in Threads /\ thread[init[r].threads[p]].pc = "exited"
              /\ thread[init[r].threads[p]].run = r /\ thread[init[r].threads[p]].id = p
              /\ Inside(init[r].threads[p]) = <<>>
  BY <1>1, <1>2, AllHaveJoined
<1>6. /\ r # NoRun /\ HeapOf(r) /\ ProcsOf(r) \subseteq Ids /\ 0 \in ProcsOf(r) /\ Stage(r, 0) = "joining"
      /\ init[r].P \in Nat /\ ProcsOf(r) = 0 .. init[r].P - 1
  BY <1>1, <1>2, <1>5, InRunFacts DEF StageOf
<1>7. /\ prev = Innermost(t) /\ thread[t].init_data = NoRun
      /\ Inside(t) = <<>> => t = 0 /\ prev = NoData
      /\ Inside(t) # <<>> => Last(Inside(t))[1] < r /\ prev = Last(Inside(t))
  BY <1>0, <1>1, <1>2 DEF Placed, ThreadOK, Innermost
<1>8. /\ Inside(t) = <<>> => prev = NoData /\ prev[1] = NoRun /\ prev[2] = 0
      /\ Inside(t) # <<>> =>
           /\ prev \in Runs \X Ids /\ prev # NoData /\ Begun(prev[1]) /\ prev[1] # r
           /\ init[prev[1]].threads[prev[2]] = t /\ prev[2] \in ProcsOf(prev[1])
           /\ prev = <<prev[1], prev[2]>> /\ prev[1] # NoRun
  <2>1. Inside(t) # <<>> => prev \in Runs \X Ids
    BY <1>0, <1>7, Orders
  <2>2. Inside(t) # <<>> =>
           /\ Begun(prev[1]) /\ init[prev[1]].threads[prev[2]] = t /\ prev[2] \in ProcsOf(prev[1])
    BY <1>0, <1>7, Orders
  <2>3. Inside(t) # <<>> => prev[1] \in Runs /\ prev = <<prev[1], prev[2]>>
    BY <2>1
  <2>4. Inside(t) # <<>> => prev # NoData /\ prev[1] # NoRun
    BY <2>3, Constants DEF NoData
  <2>5. Inside(t) # <<>> => prev[1] # r
    BY <1>5, <1>7, <2>3, Constants
  <2> QED BY <1>7, <2>1, <2>2, <2>3, <2>4, <2>5 DEF NoData
<1>9. prev \in Seats /\ prev[1] \in Runs \cup {NoRun} /\ prev[2] \in Ids
  <2>1. 0 \in Ids
    BY <1>6
  <2> QED BY <1>8, <2>1 DEF Seats
<1>10. /\ thread'[t] \in Records /\ thread'[t].pc = to /\ thread'[t].run = prev[1] /\ thread'[t].id = prev[2]
       /\ thread'[t].init_data = NoRun /\ thread'[t].thread_data = prev
  <2>1. to \in PCs
    BY <1>1 DEF PCs
  <2> QED BY <1>3, <1>4, <1>7, <1>9, <2>1 DEF Records
<1>11. to = IF Inside(t) = <<>> THEN "main" ELSE "user"
  BY <1>1, <1>8
<1>12. Types'
  <2>1. ThreadType'
    <3>1. thread'[t] \in Records /\ thread' = [thread EXCEPT ![t] = thread'[t]]
      BY <1>2, <1>4, <1>10
    <3> QED BY <1>3, <3>1 DEF ThreadType
  <2>2. HeapType'
    BY <1>0, <1>2, HeapIsStructures, HeapNext DEF Types
  <2>3. HistoryType'
    BY <1>0, <1>2 DEF Types, HistoryType, Histories
  <2> QED BY <1>0, <1>2, <2>1, <2>2, <2>3 DEF Types, InitType, MachineType, Begun
<1>13. Grown
  <2>1. history.begun \in Nat
    BY <1>0, Orders
  <2>2. \A v \in Threads : /\ thread[v].pc = "exited" => thread'[v].pc = "exited"
                           /\ thread[v].pc # "none" => thread'[v].pc # "none"
    BY <1>2, <1>4, <1>10, <1>11
  <2> QED BY <1>2, <2>1, <2>2 DEF Grown, Begun
<1>14. \A q \in Runs : q # r => (InitData(q) \in heap' <=> InitData(q) \in heap) /\ (Live(q)' <=> Live(q))
  BY <1>2, StructuresDiffer DEF Live, Begun, InitData
<1>15. ASSUME NEW u \in Threads, u # t PROVE PlacedThread(u)'
  <2>1. Seated(u) /\ Chain(u) /\ Pending(u) /\ ThreadOK(u)
    BY <1>0 DEF Placed
  <2>2. /\ thread[u].run \in Runs \cup {NoRun} /\ thread[u].init_data \in Runs \cup {NoRun}
        /\ thread[u].pc = "spawning" => thread[u].run \in Runs
    BY <1>0, <2>1, ThreadFields DEF Types, ThreadType, ThreadOK
  <2>3. ~ (thread[u].run = r /\ thread[u].pc # "exited")
    <3> SUFFICES ASSUME thread[u].run = r, thread[u].pc # "exited" PROVE FALSE
      OBVIOUS
    <3>1. PICK p : p = thread[u].id
      OBVIOUS
    <3>2. p \in ProcsOf(r) /\ init[r].threads[p] = IF thread[u].pc = "spawning" THEN NoThread ELSE u
      BY <1>0, <1>6, <2>1, <3>1, SeatType DEF Seated
    <3>3. thread[u].pc = "spawning" => p = 0
      BY <2>1, <3>1 DEF ThreadOK
    <3> QED BY <1>5, <1>15, <3>2, <3>3, NoThreadIsNone
  <2>4. ASSUME NEW k \in 1 .. Len(Inside(u)), Inside(u)[k][1] = r PROVE FALSE
    <3>1. PICK p : p = Inside(u)[k][2]
      OBVIOUS
    <3>2. /\ Inside(u) \in Seq(Runs \X Ids) /\ Inside(u)[k] \in Runs \X Ids
      BY <1>0, <2>4, Orders
    <3>3. p \in Ids /\ p < init[r].P /\ init[r].threads[p] = u
      BY <2>1, <2>4, <3>1, <3>2 DEF Chain
    <3>4. p \in ProcsOf(r)
      BY <1>6, <3>3, Constants
    <3>5. Inside(u) = <<>>
      BY <1>5, <1>15, <3>3, <3>4
    <3> QED BY <2>4, <3>5
  <2>5. thread[u].init_data # NoRun =>
          /\ \A v \in Threads : v # u => thread[v].init_data # thread[u].init_data
          /\ thread[u].pc \notin {"spawning", "exited"} => InitData(thread[u].init_data) \in heap /\ thread[u].init_data # r
    BY <1>5, <2>1 DEF Pending
  <2>6. thread[u].init_data # NoRun =>
          /\ \A v \in Threads : v # u => thread'[v].init_data # thread[u].init_data
          /\ thread[u].pc \notin {"spawning", "exited"} => InitData(thread[u].init_data) \in heap'
    BY <1>4, <1>10, <1>14, <2>2, <2>5
  <2>7. \A q \in Runs :
         /\ InitData(q) \in heap
         /\ (thread[u].run = q /\ thread[u].pc # "exited") \/ \E k \in 1 .. Len(Inside(u)) : Inside(u)[k][1] = q
         => InitData(q) \in heap'
    BY <1>14, <2>3, <2>4
  <2>8. Beside(u)
    BY <1>2, <1>4, <1>15, <2>6, <2>7 DEF Beside
  <2> QED BY <1>0, <1>12, <1>13, <2>8, BesideStep
<1>16. PlacedThread(t)'
  <2>1. /\ ThreadOK(t) /\ Seated(t) /\ Chain(t) /\ Spawned(t) /\ InLiveRuns(t)
    BY <1>0 DEF Placed, HeapInv
  <2>2. Inside(t)' = Inside(t) /\ Innermost(t)' = Innermost(t)
    BY <1>2 DEF Inside, Innermost
  <2>3. ThreadOK(t)'
    <3>1. CASE Inside(t) = <<>>
      BY <1>7, <1>8, <1>10, <1>11, <2>2, <3>1 DEF ThreadOK, InRun
    <3>2. CASE Inside(t) # <<>>
      BY <1>7, <1>8, <1>10, <1>11, <2>2, <3>2 DEF ThreadOK, InRun, LocalOK
    <3> QED BY <3>1, <3>2
  <2>4. Seated(t)'
    <3>1. CASE Inside(t) = <<>>
      BY <1>8, <1>10, <3>1 DEF Seated
    <3>2. CASE Inside(t) # <<>>
      <4>1. PICK q, s : q = prev[1] /\ s = prev[2]
        OBVIOUS
      <4>2. q \in Runs /\ Begun(q) /\ s \in ProcsOf(q) /\ init[q].threads[s] = t
        BY <1>8, <3>2, <4>1
      <4>3. ProcsOf(q) = 0 .. init[q].P - 1 /\ init[q].P \in Nat
        BY <1>0, <4>2, RunType DEF Types
      <4>4. s < init[q].P
        BY <4>2, <4>3
      <4>5. Begun(q)' /\ init'[q].threads[s] = t /\ s < init'[q].P
        BY <1>2, <4>2, <4>4 DEF Begun
      <4> QED BY <1>10, <1>11, <4>1, <4>5 DEF Seated
    <3> QED BY <3>1, <3>2
  <2>5. Chain(t)' /\ Pending(t)' /\ Spawning(t)' /\ Joined(t)'
    BY <1>2, <1>10, <1>11, <2>1, <2>2 DEF Chain, Pending, Spawning, Joined, Begun
  <2>6. Spawned(t)'
    BY <1>2, <1>10, <1>11, <2>1 DEF Spawned, Begun
  <2>7. InLiveRuns(t)'
    <3>1. \A k \in 1 .. Len(Inside(t)) : Inside(t)[k][1] # r /\ Inside(t)[k][1] \in Runs
      <4>1. \A k \in 1 .. Len(Inside(t)) : Inside(t)[k][1] # r
        BY <1>0, <1>5, <1>7, InsideBefore
      <4>2. \A k \in 1 .. Len(Inside(t)) : Inside(t)[k] \in Runs \X Ids
        BY <1>0, Orders
      <4> QED BY <4>1, <4>2
    <3>2. \A k \in 1 .. Len(Inside(t)) : Live(Inside(t)[k][1])
      BY <2>1 DEF InLiveRuns
    <3>3. PICK L, q : L = Inside(t) /\ q = prev[1]
      OBVIOUS
    <3>4. \A k \in 1 .. Len(L) : Live(L[k][1])'
      BY <1>14, <3>1, <3>2, <3>3
    <3>5. q # NoRun => Live(q)'
      <4> SUFFICES ASSUME L # <<>> PROVE Live(q)'
        BY <1>8, <3>3
      <4>1. Len(L) \in 1 .. Len(L) /\ L[Len(L)] = prev
        BY <1>0, <1>7, <3>3, Orders DEF Last
      <4>2. Live(L[Len(L)][1])'
        BY <3>4, <4>1
      <4> QED BY <3>3, <4>1, <4>2
    <3> QED BY <1>10, <2>2, <3>3, <3>4, <3>5 DEF InLiveRuns
  <2> QED BY <2>3, <2>4, <2>5, <2>6, <2>7 DEF PlacedThread
<1>17. Placed'
  BY <1>0, <1>2, <1>12, <1>13, <1>15, <1>16, PlacedNext DEF Begun
<1>18. ASSUME NEW q \in Runs, q # r PROVE RunSound(q)'
  <2>1. /\ \A o \in heap : o[2] = q => o \in heap'
        /\ \A o \in heap' : o[2] = q => o \in heap
    BY <1>2, <1>18, StructuresDiffer
  <2>2. ASSUME Begun(q), NEW p \in ProcsOf(q)
        PROVE  \/ Stage(q, p)' = Stage(q, p)
               \/ p = prev[2] /\ Stage(q, p) \in {"user", "away"} /\ Stage(q, p)' \in {"user", "away"}
    <3>1. PICK u : u = init[q].threads[p]
      OBVIOUS
    <3>2. u # NoThread => u \in Threads
      BY <1>0, <2>2, <3>1, SeatOf
    <3>3. CASE u # t
      <4>1. u # NoThread => thread'[u] = thread[u]
        BY <1>4, <3>2, <3>3
      <4> QED BY <1>2, <3>1, <4>1, StageSame
    <3>4. CASE u = t
      <4>1. Stage(q, p) = "away"
        BY <1>1, <1>18, <3>1, <3>4, NoThreadIsNone DEF Stage
      <4>2. CASE prev[1] = q /\ prev[2] = p
        <5>1. Inside(t) # <<>>
          BY <1>8, <4>2, Constants
        <5>2. StageOf(thread'[t]) = "user"
          BY <1>10, <1>11, <5>1 DEF StageOf
        <5>3. Stage(q, p)' = "user"
          BY <1>2, <1>10, <3>1, <3>4, <4>2, <5>2, NoThreadIsNone DEF Stage
        <5> QED BY <4>1, <4>2, <5>3
      <4>3. CASE ~ (prev[1] = q /\ prev[2] = p)
        <5>1. Stage(q, p)' = "away"
          BY <1>2, <1>10, <3>1, <3>4, <4>3, NoThreadIsNone DEF Stage
        <5> QED BY <4>1, <5>1
      <4> QED BY <4>2, <4>3
    <3> QED BY <3>3, <3>4
  <2>3. Aside(q, prev[2])
    BY <1>2, <2>1, <2>2 DEF Aside
  <2> QED BY <1>0, <1>12, <1>13, <1>17, <2>3, AsideStep
<1>19. RunSound(r)'
  <2>1. RunOK(r)'
    BY <1>5, <1>17 DEF Placed
  <2>2. ~ Live(r)' /\ Begun(r)'
    BY <1>2, <1>5, StructuresDiffer DEF Live, Begun, InitData
  <2>3. \A o \in heap' : o[2] # r
    <3> SUFFICES ASSUME NEW o \in heap', o[2] = r PROVE FALSE
      OBVIOUS
    <3>1. o \in heap /\ o # InitData(r) /\ o # SharedArrays(r) /\ o \in Structures
      BY <1>0, <1>2, HeapIsStructures DEF Types
    <3>2. PICK q \in Runs : \/ o = InitData(q) \/ o = SharedArrays(q)
                           \/ \E p \in Ids : o \in {Descriptor(q, p), ThreadData(q, p), Queues(q, p)}
      BY <3>1 DEF Structures, ProcessStructures
    <3>3. q = r
      BY <3>2, StructuresDiffer
    <3>4. PICK p \in Ids : o \in {Descriptor(r, p), ThreadData(r, p), Queues(r, p)}
      BY <3>1, <3>2, <3>3
    <3>5. p \in ProcsOf(r) /\ HeapOfSeat(r, p)
      BY <1>6, <3>1, <3>4 DEF HeapOf
    <3>6. Stage(r, p) \in {"joining", "exited"}
      <4>1. CASE p = 0
        BY <1>6, <4>1
      <4>2. CASE p # 0
        <5>1. PICK u : u = init[r].threads[p]
          OBVIOUS
        <5>2. u \in Threads /\ thread[u].pc = "exited" /\ thread[u].run = r /\ thread[u].id = p
          BY <1>5, <3>5, <4>2, <5>1
        <5> QED BY <5>1, <5>2, NoThreadIsNone DEF Stage, StageOf
      <4> QED BY <4>1, <4>2
    <3> QED BY <1>5, <3>1, <3>4, <3>5, <3>6 DEF HeapOfSeat
  <2>4. HeapOfRun(r)' /\ Linked(r)' /\ Accounted(r)'
    BY <2>2, <2>3 DEF HeapOfRun, Linked, Accounted
  <2>5. DataOf(r)'
    <3>1. SameData(init[r], init'[r]) /\ DataOf(r)
      BY <1>0, <1>2, <1>5 DEF SameData, RunSound
    <3>2. Stage(r, 0) \notin DueStages \cup {"exited"}
      BY <1>6 DEF DueStages
    <3> QED BY <1>0, <1>2, <1>5, <2>2, <3>1, <3>2, OwnData
  <2> QED BY <2>1, <2>4, <2>5 DEF RunSound
<1> QED BY <1>12, <1>15, <1>16, <1>18, <1>19, TogetherNext

(* A process leaves a run that is aborted now. *)
Exits(t) ==
  /\ thread[t].pc \in InRun
  /\ init' = [init EXCEPT ![thread[t].run] = [init[thread[t].run] EXCEPT !.abort = TRUE]]
  /\ thread' = [thread EXCEPT ![t] = Exited(t)]
  /\ PthreadExit(t)
  /\ UNCHANGED <<hp, machine, failing, fatal>>

(* A process exits and leaves behind an aborted run in which nobody is
   where it needs the others. *)
LEMMA ExitStep ==
  ASSUME LifeIInv, NEW t \in Threads, Exits(t),
         NEW r, NEW s, r = thread[t].run, s = thread[t].id,
         \A p \in ProcsOf(r) : p # s =>
           /\ Stage(r, p) \notin {"synced", "delivering", "checkpointing", "ended", "leaving", "joining"}
           /\ p = 0 => Stage(r, p) \notin {"due", "manual"}
  PROVE  LifeIInv'
<1>0. Types /\ Placed /\ HeapInv /\ LinkedInv /\ \A q \in Runs : RunSound(q)
  BY EachRun DEF LifeIInv
<1>1. PICK i, j : i = thread[t].init_data /\ j = [init[r] EXCEPT !.abort = TRUE]
  OBVIOUS
<1>2. /\ thread[t].pc \in InRun /\ init' = [init EXCEPT ![r] = j]
      /\ thread' = [thread EXCEPT ![t] = [thread[t] EXCEPT !.pc = "exited"]]
      /\ heap' = heap \ ({InitData(i)} \cup {ThreadData(thread[t].thread_data[1], thread[t].thread_data[2])})
      /\ history' = [history EXCEPT !.lost = history.lost \cup Around(r)]
      /\ hp' = hp /\ machine' = machine /\ failing' = failing /\ fatal' = fatal
  BY <1>1 DEF Exits, Exited, PthreadExit
<1>3. thread \in [Threads -> Records] /\ thread[t] \in Records
  BY <1>0 DEF Types, ThreadType
<1>4. /\ thread'[t] = [thread[t] EXCEPT !.pc = "exited"]
      /\ \A u \in Threads : u # t => thread'[u] = thread[u]
  BY <1>2, <1>3
<1>5. /\ thread'[t] \in Records /\ thread'[t].pc = "exited" /\ thread'[t].run = thread[t].run
      /\ thread'[t].id = thread[t].id /\ thread'[t].init_data = thread[t].init_data
      /\ thread'[t].thread_data = thread[t].thread_data
  BY <1>3, <1>4 DEF Records, PCs
<1>6. /\ r \in Runs /\ r # NoRun /\ Begun(r) /\ Live(r) /\ s \in ProcsOf(r) /\ s \in Ids
      /\ ProcsOf(r) \subseteq Ids /\ 0 \in ProcsOf(r) /\ HeapOf(r) /\ Stage(r, s) = StageOf(thread[t])
      /\ init[r].threads[s] = t /\ init[r] \in RunOf(init[r].P) /\ init[r].P \in Nat
      /\ s < init[r].P /\ ProcsOf(r) = 0 .. init[r].P - 1
  BY <1>2, InRunFacts
<1>7. Stage(r, s) \notin {"unborn", "born", "ready", "joining", "exited"}
  BY <1>2, <1>3, <1>6, InRunStage DEF Outside
<1>8. thread[t].thread_data[1] = r /\ thread[t].thread_data[2] = s
  BY <1>0, <1>2 DEF Placed, ThreadOK
<1>9. /\ i \in Runs \cup {NoRun}
      /\ i # NoRun => ~ Begun(i) /\ \A u \in Threads : u # t => thread[u].init_data # i
  <2>1. i \in Runs \cup {NoRun}
    BY <1>1, <1>3, ThreadFields
  <2>2. Pending(t) /\ thread[t].pc # "spawning"
    BY <1>0, <1>2 DEF Placed, InRun
  <2> QED BY <1>1, <2>1, <2>2 DEF Pending
<1>10. /\ j \in RunOf(init[r].P) /\ j.P = init[r].P /\ j.threads = init[r].threads /\ j.abort
       /\ j.prev_data = init[r].prev_data /\ SameData(init[r], j) /\ j.arrived = init[r].arrived
       /\ j.ended = init[r].ended /\ j.threadData = init[r].threadData
  BY <1>1, <1>6 DEF RunOf, SameData
<1>11. InitType' /\ init'[r] = j /\ \A q \in Runs : q # r => init'[q] = init[q]
  BY <1>0, <1>2, <1>6, <1>10, InitUpdate DEF Types
<1>12. /\ HistoryType' /\ history'.inside = history.inside /\ history'.begun = history.begun
       /\ history'.syncs = history.syncs /\ history'.manual = history.manual /\ history'.since = history.since
  <2>1. history \in Histories
    BY <1>0 DEF Types, HistoryType
  <2>2. history.lost \cup Around(r) \in SUBSET Runs
    BY <2>1 DEF Histories, Around
  <2> QED BY <1>2, <2>1, <2>2 DEF HistoryType, Histories
<1>13. Types'
  <2>1. ThreadType'
    BY <1>2, <1>3, <1>5 DEF ThreadType
  <2>2. HeapType'
    BY <1>0, <1>2, HeapIsStructures, HeapNext DEF Types
  <2> QED BY <1>0, <1>2, <1>11, <1>12, <2>1, <2>2 DEF Types, MachineType
<1>14. \A q \in Runs : /\ init'[q].P = init[q].P /\ init'[q].threads = init[q].threads
                       /\ init[q].abort => init'[q].abort
                       /\ init'[q].prev_data = init[q].prev_data
                       /\ (Begun(q)' <=> Begun(q)) /\ ProcsOf(q)' = ProcsOf(q)
  BY <1>10, <1>11 DEF Begun, ProcsOf
<1>15. \A q \in Runs : q # i => (InitData(q) \in heap' <=> InitData(q) \in heap)
  BY <1>2, StructuresDiffer
<1>16. \A q \in Runs : Live(q)' <=> Live(q)
  BY <1>9, <1>14, <1>15, Constants DEF Live, InitData
<1>17. Grown
  <2>1. history.begun \in Nat
    BY <1>0, Orders
  <2>2. \A v \in Threads : /\ thread[v].pc = "exited" => thread'[v].pc = "exited"
                           /\ thread[v].pc # "none" => thread'[v].pc # "none"
    BY <1>4, <1>5
  <2> QED BY <1>12, <1>14, <2>1, <2>2 DEF Grown
<1>18. ASSUME NEW u \in Threads, u # t PROVE PlacedThread(u)'
  <2>1. Seated(u) /\ Chain(u) /\ Pending(u) /\ ThreadOK(u)
    BY <1>0 DEF Placed
  <2>2. /\ thread[u].run \in Runs \cup {NoRun} /\ thread[u].init_data \in Runs \cup {NoRun}
        /\ thread[u].pc = "spawning" => thread[u].run \in Runs
    BY <1>0, <2>1, ThreadFields DEF Types, ThreadType, ThreadOK
  <2>3. thread[u].init_data # NoRun =>
          /\ \A v \in Threads : v # u => thread[v].init_data # thread[u].init_data
          /\ thread[u].pc \notin {"spawning", "exited"} => InitData(thread[u].init_data) \in heap /\ thread[u].init_data # i
    BY <1>1, <1>18, <2>1 DEF Pending
  <2>4. thread[u].init_data # NoRun =>
          /\ \A v \in Threads : v # u => thread'[v].init_data # thread[u].init_data
          /\ thread[u].pc \notin {"spawning", "exited"} => InitData(thread[u].init_data) \in heap'
    BY <1>4, <1>5, <1>15, <2>2, <2>3
  <2>5. ASSUME NEW q \in Runs,
               (thread[u].run = q /\ thread[u].pc # "exited") \/ \E k \in 1 .. Len(Inside(u)) : Inside(u)[k][1] = q
        PROVE  q # i
    <3>1. Begun(q)
      BY <2>1, <2>5, Constants DEF Seated, Chain
    <3> QED BY <1>9, <3>1, Constants
  <2>6. \A q \in Runs :
         /\ InitData(q) \in heap
         /\ (thread[u].run = q /\ thread[u].pc # "exited") \/ \E k \in 1 .. Len(Inside(u)) : Inside(u)[k][1] = q
         => InitData(q) \in heap'
    BY <1>15, <2>5
  <2>7. /\ thread'[u] = thread[u] /\ history'.inside[u] = history.inside[u]
        /\ thread[u].pc = "spawning" => init'[thread[u].run].threads = init[thread[u].run].threads
        /\ thread[u].init_data # NoRun => init'[thread[u].init_data].P = init[thread[u].init_data].P
    BY <1>4, <1>12, <1>14, <1>18, <2>2
  <2>8. Beside(u)
    BY <2>4, <2>6, <2>7 DEF Beside
  <2> QED BY <1>0, <1>13, <1>17, <2>8, BesideStep
<1>19. PlacedThread(t)'
  <2>1. /\ ThreadOK(t) /\ Seated(t) /\ Chain(t) /\ Pending(t) /\ Spawned(t) /\ InLiveRuns(t)
    BY <1>0 DEF Placed, HeapInv
  <2>2. PICK L : L = Inside(t)
    OBVIOUS
  <2>3. L = Inside(t)' /\ L \in Seq(Runs \X Ids) /\ \A k \in 1 .. Len(L) : L[k] \in Runs \X Ids
    BY <1>0, <1>12, <2>2, Orders DEF Inside
  <2>4. ThreadOK(t)' /\ Spawning(t)' /\ Joined(t)'
    BY <1>5, <1>6, <1>10, <1>11 DEF ThreadOK, InRun, Spawning, Joined
  <2>5. Seated(t)'
    BY <1>2, <1>5, <1>6, <1>14, <2>1 DEF Seated, InRun
  <2>6. Chain(t)'
    <3>1. \A k \in 1 .. Len(L) - 1 : k + 1 \in 1 .. Len(L) /\ k \in 1 .. Len(L)
      BY <2>3
    <3>2. \A k \in 1 .. Len(L) :
             Begun(L[k][1])' /\ L[k][2] < init'[L[k][1]].P /\ init'[L[k][1]].threads[L[k][2]] = t
      BY <1>14, <2>1, <2>2, <2>3 DEF Chain
    <3>3. \A k \in 1 .. Len(L) - 1 :
             L[k+1][2] = 0 /\ init'[L[k+1][1]].prev_data = L[k] /\ L[k][1] < L[k+1][1]
      BY <1>14, <2>1, <2>2, <2>3, <3>1 DEF Chain
    <3>4. L # <<>> => IF t = 0 THEN L[1][2] = 0 /\ init'[L[1][1]].prev_data = NoData ELSE L[1][2] # 0
      <4>1. L # <<>> => 1 \in 1 .. Len(L)
        BY <2>3
      <4> QED BY <1>14, <2>1, <2>2, <2>3, <4>1 DEF Chain
    <3> QED BY <2>3, <3>2, <3>3, <3>4 DEF Chain
  <2>7. Pending(t)'
    <3>1. i # NoRun => /\ i <= history'.begun /\ ~ Begun(i)'
                       /\ L # <<>> => Last(L)[1] < i
                       /\ \A u \in Threads : u # t => thread'[u].init_data # i
      BY <1>1, <1>4, <1>9, <1>12, <1>14, <2>1, <2>2 DEF Pending
    <3> QED BY <1>1, <1>5, <2>3, <3>1 DEF Pending
  <2>8. Spawned(t)'
    BY <1>2, <1>5, <1>14, <2>1 DEF Spawned, InRun
  <2>9. InLiveRuns(t)'
    <3>1. \A k \in 1 .. Len(L) : Live(L[k][1])'
      BY <1>16, <2>1, <2>2, <2>3 DEF InLiveRuns
    <3> QED BY <1>5, <2>3, <3>1 DEF InLiveRuns
  <2> QED BY <2>4, <2>5, <2>6, <2>7, <2>8, <2>9 DEF PlacedThread
<1>20. Placed'
  BY <1>0, <1>13, <1>14, <1>17, <1>18, <1>19, PlacedNext
<1>21. ASSUME NEW q \in Runs, q # r, q # i PROVE RunSound(q)'
  <2>1. /\ \A o \in heap : o[2] = q => o \in heap'
        /\ \A o \in heap' : o[2] = q => o \in heap
    BY <1>2, <1>8, <1>21, StructuresDiffer
  <2>2. Aside(q, 0)
    BY <1>0, <1>2, <1>4, <1>5, <1>11, <1>12, <1>21, <2>1, OthersAside
  <2> QED BY <1>0, <1>13, <1>17, <1>20, <2>2, AsideStep
<1>22. ASSUME i \in Runs PROVE RunSound(i)'
  <2>1. ~ Begun(i) /\ ~ Begun(i)' /\ RunSound(i) /\ i # NoRun
    BY <1>0, <1>9, <1>14, <1>22, Constants
  <2>2. HeapOfRun(i)'
    BY <1>2, <1>12, <2>1 DEF RunSound, HeapOfRun, Live, InitData
  <2>3. DataOf(i)'
    BY <1>12, <2>1 DEF RunSound, DataOf
  <2> QED BY <2>1, <2>2, <2>3 DEF RunSound, RunOK, Linked, Accounted, Live
<1>23. /\ Stage(r, s)' = "exited" /\ \A p \in ProcsOf(r) : p # s => Stage(r, p)' = Stage(r, p)
  <2>1. StageOf(thread'[t]) = "exited"
    BY <1>5 DEF StageOf
  <2>2. /\ Types /\ Placed /\ r \in Runs /\ r = thread[t].run /\ s = thread[t].id /\ Begun(r)
        /\ s \in ProcsOf(r) /\ init[r].threads[s] = t
        /\ \A u \in Threads : u # t => thread'[u] = thread[u]
    BY <1>0, <1>4, <1>6
  <2>3. thread'[t].run = r /\ thread'[t].id = s /\ init'[r].threads = init[r].threads
    BY <1>5, <1>6, <1>14
  <2>4. Stage(r, s)' = StageOf(thread'[t])
    BY <2>2, <2>3, OwnStages
  <2>5. \A p \in ProcsOf(r) : p # s => Stage(r, p)' = Stage(r, p)
    BY <2>2, <2>3, OwnStages
  <2> QED BY <2>1, <2>4, <2>5
<1>24. Live(r)' /\ ProcsOf(r)' = ProcsOf(r) /\ Begun(r)' /\ init'[r].abort
  BY <1>6, <1>10, <1>11, <1>14, <1>16
<1>25. RunSound(r)'
  <2>1. RunOK(r)'
    BY <1>6, <1>20 DEF Placed
  <2>2. HeapOfRun(r)'
    <3>1. ASSUME NEW p \in ProcsOf(r), p # s PROVE HeapOfSeat(r, p)'
      <4>1. HeapOfSeat(r, p)
        BY <1>6, <3>1 DEF HeapOf
      <4>2. /\ Descriptor(r, p) \in heap' <=> Descriptor(r, p) \in heap
            /\ ThreadData(r, p) \in heap' <=> ThreadData(r, p) \in heap
            /\ Queues(r, p) \in heap' <=> Queues(r, p) \in heap
        BY <1>2, <1>8, <3>1, StructuresDiffer
      <4> QED BY <1>23, <1>24, <3>1, <4>1, <4>2 DEF HeapOfSeat, Descriptor, ThreadData, Queues
    <3>2. HeapOfSeat(r, s)'
      <4>1. HeapOfSeat(r, s)
        BY <1>6 DEF HeapOf
      <4>2. Descriptor(r, s) \notin heap'
        BY <1>2, <1>7, <4>1 DEF HeapOfSeat
      <4> QED BY <1>23, <1>24, <4>2 DEF HeapOfSeat, Descriptor, ThreadData, Queues
    <3>3. SharedArrays(r) \in heap'
      BY <1>2, <1>6, StructuresDiffer DEF HeapOf
    <3>4. ASSUME NEW p \in Ids \ ProcsOf(r)
          PROVE  {Descriptor(r, p), ThreadData(r, p), Queues(r, p)} \cap heap' = {}
      BY <1>2, <1>6, <3>4 DEF HeapOf
    <3>5. HeapOf(r)'
      BY <1>24, <3>1, <3>2, <3>3, <3>4 DEF HeapOf, SharedArrays, Descriptor, ThreadData, Queues
    <3> QED BY <1>24, <3>5 DEF HeapOfRun
  <2>3. Linked(r)'
    <3>1. Linked(r) /\ init'[r].threadData = init[r].threadData
      BY <1>0, <1>6, <1>10, <1>11 DEF RunSound
    <3>2. \A p \in ProcsOf(r) : p \in init[r].threadData <=> Stage(r, p)' \notin {"unborn", "born", "ready"}
      BY <1>6, <1>7, <1>23, <3>1 DEF Linked
    <3> QED BY <1>24, <3>1, <3>2 DEF Linked
  <2>4. DataOf(r)'
    <3>1. SameData(init[r], init'[r]) /\ DataOf(r)
      BY <1>0, <1>6, <1>10, <1>11 DEF RunSound
    <3>2. \/ Stage(r, 0)' \in DueStages \cup {"exited"}
          \/ Stage(r, 0) \notin DueStages \cup {"exited"}
          \/ Stage(r, 0)' = Stage(r, 0)
      BY <1>6, <1>23
    <3> QED BY <1>0, <1>6, <1>12, <1>14, <3>1, <3>2, OwnData
  <2>5. Aborted(r)'
    BY <1>23, <1>24 DEF Aborted
  <2> QED BY <1>24, <2>1, <2>2, <2>3, <2>4, <2>5 DEF RunSound, Accounted
<1>26. \A q \in Runs : RunSound(q)'
  BY <1>21, <1>22, <1>25
<1> QED BY <1>13, <1>18, <1>19, <1>26, TogetherNext

(* A process notices the abort and exits. *)
LEMMA ExitAbortedStep ==
  ASSUME LifeIInv, NEW t \in Threads, ExitAborted(t)
  PROVE  LifeIInv'
<1>0. Types /\ \A q \in Runs : RunSound(q)
  BY EachRun DEF LifeIInv
<1>1. PICK r, s : r = thread[t].run /\ s = thread[t].id
  OBVIOUS
<1>2. thread[t].pc \in InRun /\ init[r].abort
  BY <1>1 DEF ExitAborted, Run, InRun
<1>3. r \in Runs /\ Live(r) /\ init[r] \in RunOf(init[r].P)
  BY <1>1, <1>2, InRunFacts
<1>4. [init[r] EXCEPT !.abort = TRUE] = init[r]
  BY <1>2, <1>3 DEF RunOf
<1>5. Exits(t)
  <2>1. init = [init EXCEPT ![r] = init[r]]
    BY <1>0, <1>3 DEF Types, InitType
  <2> QED BY <1>1, <1>2, <1>4, <2>1 DEF ExitAborted, Exits
<1>6. Aborted(r)
  BY <1>0, <1>2, <1>3 DEF RunSound, Accounted
<1> QED BY <1>1, <1>5, <1>6, ExitStep DEF Aborted

(* bsp_abort, and a checkpoint that fails. *)
LEMMA AbortStep ==
  ASSUME LifeIInv, NEW t \in Threads, Abort(t) \/ CheckpointFails(t)
  PROVE  LifeIInv'
<1>0. Types /\ Placed /\ \A q \in Runs : RunSound(q)
  BY EachRun DEF LifeIInv
<1>1. PICK r, s : r = thread[t].run /\ s = thread[t].id
  OBVIOUS
<1>2. thread[t].pc \in {"user", "checkpointing"} /\ thread[t].pc \in InRun
  BY DEF Abort, CheckpointFails, InRun
<1>3. /\ r \in Runs /\ Live(r) /\ Begun(r) /\ s \in ProcsOf(r) /\ Stage(r, s) = StageOf(thread[t])
  BY <1>1, <1>2, InRunFacts
<1>4. Stage(r, s) = thread[t].pc
  BY <1>2, <1>3 DEF StageOf
<1>5. Exits(t)
  BY <1>1, <1>2 DEF Abort, CheckpointFails, Exits
<1>6. ASSUME NEW p \in ProcsOf(r), p # s
      PROVE  /\ Stage(r, p) \notin {"synced", "delivering", "checkpointing", "ended", "leaving", "joining"}
             /\ p = 0 => Stage(r, p) \notin {"due", "manual"}
  <2>1. CASE init[r].abort
    BY <1>0, <1>3, <1>6, <2>1 DEF RunSound, Accounted, Aborted
  <2>2. CASE ~ init[r].abort
    <3>1. PICK b \in Bases : Account(View(r), ProcsOf(r), b, hp, init[r].ended, Due(init[r]), ManualAt[r])
      BY <1>0, <1>3, <2>2 DEF RunSound, Accounted, InStep
    <3>2. View(r) \in [ProcsOf(r) -> Views] /\ View(r)[s] = SeatView(r, s) /\ View(r)[p] = SeatView(r, p)
      BY <1>0, <1>3, <1>6, ViewType
    <3>3. View(r)[s].at = thread[t].pc /\ View(r)[p].at = Stage(r, p)
      BY <1>4, <3>2 DEF SeatView
    <3>4. PICK V, S : V = View(r) /\ S = ProcsOf(r)
      OBVIOUS
    <3>5. CASE thread[t].pc = "user"
      <4>1. V \in [S -> Views] /\ s \in S /\ V[s].at \in {"user", "away"}
        BY <1>3, <3>2, <3>3, <3>4, <3>5
      <4>2. Account(V, S, b, hp, init[r].ended, Due(init[r]), ManualAt[r])
        BY <3>1, <3>4
      <4>3. \A q \in S : V[q].at \notin Behind
        BY <4>1, <4>2, UserMeansNoneIsPast
      <4>4. Stage(r, p) \notin Behind
        BY <1>6, <3>3, <3>4, <4>3
      <4>5. CASE Stage(r, p) \in {"due", "manual", "synced", "delivering", "checkpointing", "ended", "leaving", "joining"}
        BY <4>4, <4>5 DEF Behind
      <4> QED BY <4>5
    <3>6. CASE thread[t].pc = "checkpointing"
      <4>1. V \in [S -> Views] /\ s \in S /\ V[s].at = "checkpointing"
        BY <1>3, <3>2, <3>3, <3>4, <3>6
      <4>2. Account(V, S, b, hp, init[r].ended, Due(init[r]), ManualAt[r])
        BY <3>1, <3>4
      <4>3. \A q \in S : V[q].at \in {"to_due", "due", "to_manual", "manual", "checkpointing", "to_user"}
        BY <4>1, <4>2, CheckpointingMeansAllWait
      <4>4. Stage(r, p) \in {"to_due", "due", "to_manual", "manual", "checkpointing", "to_user"}
        BY <1>6, <3>3, <3>4, <4>3
      <4>5. s = 0
        BY <1>0, <1>1, <3>6 DEF Placed, ThreadOK, InRun, LocalOK
      <4>6. ASSUME Stage(r, p) = "checkpointing" PROVE p = 0
        <5>1. PICK u : u = init[r].threads[p]
          OBVIOUS
        <5>2. u # NoThread /\ thread[u].id = p /\ thread[u].run = r /\ StageOf(thread[u]) = "checkpointing"
          BY <4>6, <5>1 DEF Stage
        <5>3. u \in Threads
          BY <1>0, <1>3, <1>6, <5>1, <5>2, SeatOf
        <5>4. thread[u].pc = "checkpointing"
          BY <5>2 DEF StageOf
        <5> QED BY <1>0, <5>2, <5>3, <5>4 DEF Placed, ThreadOK, InRun, LocalOK
      <4> QED BY <1>6, <4>4, <4>5, <4>6
    <3> QED BY <1>2, <3>5, <3>6
  <2> QED BY <2>1, <2>2
<1> QED BY <1>1, <1>5, <1>6, ExitStep

(* The init struct bsp_begin fills in. *)
LEMMA NewRunType ==
  ASSUME Types, NEW t \in Threads, NEW p \in 1 .. MaxP
  PROVE  /\ NewRun(t, p) \in RunOf(p) /\ NewRun(t, p).P = p /\ ~ NewRun(t, p).abort /\ ~ NewRun(t, p).ended
         /\ NewRun(t, p).threads = [s \in 0 .. p-1 |-> NoThread] /\ NewRun(t, p).threadData = {}
         /\ NewRun(t, p).prev_data = thread[t].thread_data
         /\ ~ NewRun(t, p).no_cp /\ ~ NewRun(t, p).safe_cp /\ NewRun(t, p).skipped_checkpoints = 0
         /\ NewRun(t, p).safe_cp_f \in Nat /\ ~ Due(NewRun(t, p))
         /\ \A a \in Arrays, s \in 0 .. p-1 : NewRun(t, p).arrived[a][s] = 0
<1>1. thread[t].thread_data \in Seats /\ machine[t].cp_f \in Nat /\ machine[t].safe_cp_f \in Nat
  BY ThreadFields DEF Types, ThreadType, MachineType
<1>2. [a \in Arrays |-> [s \in 0 .. p-1 |-> 0]] \in [Arrays -> [0 .. p-1 -> Nat]]
  OBVIOUS
<1>3. [s \in 0 .. p-1 |-> NoThread] \in [0 .. p-1 -> Threads \cup {NoThread}]
  OBVIOUS
<1>4. NewRun(t, p) \in RunOf(p)
  BY <1>1, <1>2, <1>3 DEF NewRun, RunOf
<1>5. ~ Due(NewRun(t, p))
  BY <1>1 DEF NewRun, Due, CpFrequency
<1> QED BY <1>1, <1>4, <1>5 DEF NewRun

(* bsp_begin makes the init struct that the run needs (bsp.c:29-132). *)
LEMMA BeginStep ==
  ASSUME LifeIInv, NEW t \in Threads, Begin(t)
  PROVE  LifeIInv'
<1>0. Types /\ Placed /\ HeapInv /\ LinkedInv /\ \A q \in Runs : RunSound(q)
  BY EachRun DEF LifeIInv
<1>a. PICK n \in 1 .. history.bound.processes :
       LET r == IF ImpliedInit(t) THEN history.begun + 1 ELSE thread[t].init_data IN
       /\ init' = [init EXCEPT ![r] = NewRun(t, n)]
       /\ heap' = heap \cup {InitData(r), SharedArrays(r)}
       /\ history' = [history EXCEPT !.begun = IF ImpliedInit(t) THEN r ELSE @]
       /\ thread' = [thread EXCEPT ![t] = [@ EXCEPT !.pc = "spawning", !.run = r, !.id = 0,
                                             !.count = n - 1, !.init_data = r]]
  BY DEF Begin
<1>1. PICK r, j, b : /\ r = (IF ImpliedInit(t) THEN history.begun + 1 ELSE thread[t].init_data)
                     /\ j = NewRun(t, n) /\ b = (IF ImpliedInit(t) THEN r ELSE history.begun)
  OBVIOUS
<1>2. /\ thread[t].pc \in {"main", "user"}
      /\ thread[t].init_data # NoRun \/ (ImpliedInit(t) /\ history.begun < history.bound.runs)
      /\ init' = [init EXCEPT ![r] = j] /\ heap' = heap \cup {InitData(r), SharedArrays(r)}
      /\ history' = [history EXCEPT !.begun = b]
      /\ thread' = [thread EXCEPT ![t] = [thread[t] EXCEPT !.pc = "spawning", !.run = r, !.id = 0,
                                             !.count = n - 1, !.init_data = r]]
      /\ hp' = hp /\ machine' = machine /\ failing' = failing /\ fatal' = fatal
  BY <1>a, <1>1 DEF Begin
<1>3. /\ history \in Histories /\ history.bound.runs \in 1 .. MaxRuns /\ history.bound.processes \in 1 .. MaxP
      /\ thread \in [Threads -> Records] /\ thread[t] \in Records
  BY <1>0 DEF Types, HistoryType, Histories, ThreadType
<1>4. /\ history.begun \in 0 .. MaxRuns /\ history.begun \in Nat /\ Runs = 1 .. MaxRuns /\ MaxRuns \in Nat
      /\ \A q \in Runs : Begun(q) => q <= history.begun
      /\ \A u \in Threads : thread[u].init_data # NoRun => thread[u].init_data \in Runs /\ thread[u].init_data <= history.begun
      /\ Inside(t) # <<>> => Last(Inside(t)) \in Runs \X Ids /\ Last(Inside(t))[1] <= history.begun
      /\ Inside(t) # <<>> => Innermost(t) = Last(Inside(t))
  BY <1>0, Orders
<1>5. /\ ThreadOK(t) /\ Seated(t) /\ Chain(t) /\ Pending(t) /\ Spawning(t) /\ Spawned(t)
      /\ InLiveRuns(t) /\ Joined(t)
  BY <1>0 DEF Placed, HeapInv, LinkedInv
<1>6. n \in 1 .. MaxP /\ n \in Nat /\ n > 0
  BY <1>3, Constants
<1>7. /\ r \in Runs /\ r \in Nat /\ ~ Begun(r) /\ r <= b /\ b \in 0 .. MaxRuns /\ history.begun <= b
      /\ \A u \in Threads : u # t => thread[u].init_data # r
      /\ Inside(t) # <<>> => Last(Inside(t))[1] < r
  <2>1. CASE ImpliedInit(t)
    <3>1. r = history.begun + 1 /\ b = r /\ history.begun < history.bound.runs
      BY <1>1, <1>2, <2>1 DEF ImpliedInit
    <3>2. r \in Runs /\ r \in Nat /\ r <= b /\ b \in 0 .. MaxRuns /\ history.begun <= b
      BY <1>3, <1>4, <3>1
    <3>3. ASSUME NEW q \in Runs, q <= history.begun PROVE q < r /\ q # r
      BY <1>4, <3>1, <3>3
    <3>4. ~ Begun(r)
      BY <1>4, <3>2, <3>3
    <3>5. \A u \in Threads : u # t => thread[u].init_data # r
      BY <1>4, <3>2, <3>3, Constants
    <3>6. Inside(t) # <<>> => Last(Inside(t))[1] < r
      BY <1>4, <3>3
    <3> QED BY <3>2, <3>4, <3>5, <3>6
  <2>2. CASE ~ ImpliedInit(t)
    <3>1. r = thread[t].init_data /\ r # NoRun /\ b = history.begun
      BY <1>1, <1>2, <2>2
    <3> QED BY <1>2, <1>4, <1>5, <3>1 DEF Pending
  <2> QED BY <2>1, <2>2
<1>8. r # NoRun
  BY <1>7, Constants
<1>9. /\ thread[t].thread_data = Innermost(t)
      /\ Inside(t) = <<>> => t = 0
      /\ thread[t].pc = "main" => thread[t].run = NoRun
  BY <1>2, <1>5 DEF ThreadOK, Innermost, InRun
<1>10. /\ j \in RunOf(n) /\ j.P = n /\ ~ j.abort /\ ~ j.ended
       /\ j.threads = [s \in 0 .. n-1 |-> NoThread] /\ j.threadData = {} /\ j.prev_data = Innermost(t)
       /\ ~ j.no_cp /\ ~ j.safe_cp /\ j.skipped_checkpoints = 0 /\ j.safe_cp_f \in Nat /\ ~ Due(j)
       /\ \A a \in Arrays, s \in 0 .. n-1 : j.arrived[a][s] = 0
  <2>1. /\ NewRun(t, n) \in RunOf(n) /\ NewRun(t, n).P = n /\ ~ NewRun(t, n).abort /\ ~ NewRun(t, n).ended
        /\ NewRun(t, n).threads = [s \in 0 .. n-1 |-> NoThread] /\ NewRun(t, n).threadData = {}
        /\ NewRun(t, n).prev_data = thread[t].thread_data
        /\ ~ NewRun(t, n).no_cp /\ ~ NewRun(t, n).safe_cp /\ NewRun(t, n).skipped_checkpoints = 0
        /\ NewRun(t, n).safe_cp_f \in Nat /\ ~ Due(NewRun(t, n))
        /\ \A a \in Arrays, s \in 0 .. n-1 : NewRun(t, n).arrived[a][s] = 0
    BY <1>0, <1>6, NewRunType
  <2>2. j = NewRun(t, n) /\ thread[t].thread_data = Innermost(t)
    BY <1>1, <1>9
  <2> QED BY <2>1, <2>2
<1>11. /\ thread'[t] = [thread[t] EXCEPT !.pc = "spawning", !.run = r, !.id = 0, !.count = n - 1, !.init_data = r]
       /\ \A u \in Threads : u # t => thread'[u] = thread[u]
  BY <1>2, <1>3
<1>12. /\ thread'[t] \in Records /\ thread'[t].pc = "spawning" /\ thread'[t].run = r
       /\ thread'[t].id = 0 /\ thread'[t].init_data = r /\ thread'[t].count = n - 1
       /\ thread'[t].thread_data = Innermost(t)
  <2>1. n - 1 \in Nat /\ 0 \in Ids
    BY <1>6, Constants DEF Ids
  <2>2. "spawning" \in PCs /\ r \in Runs \cup {NoRun}
    BY <1>7 DEF PCs
  <2>3. PICK x, m : x = thread[t] /\ m = n - 1
    OBVIOUS
  <2>4. x \in Records /\ x.thread_data = Innermost(t)
    BY <1>3, <1>9, <2>3
  <2>5. /\ [x EXCEPT !.pc = "spawning", !.run = r, !.id = 0, !.count = m, !.init_data = r] \in Records
        /\ thread'[t] = [x EXCEPT !.pc = "spawning", !.run = r, !.id = 0, !.count = m, !.init_data = r]
    BY <1>11, <2>1, <2>2, <2>3, <2>4 DEF Records
  <2> QED BY <2>3, <2>4, <2>5 DEF Records
<1>13. init'[r] = j /\ (\A q \in Runs : q # r => init'[q] = init[q]) /\ InitType'
  <2>1. init = [q \in Runs |-> init[q]]
    BY <1>0 DEF Types, InitType
  <2>2. init'[r] = j /\ (\A q \in Runs : q # r => init'[q] = init[q]) /\ init' = [q \in Runs |-> init'[q]]
    BY <1>2, <1>7, <2>1
  <2>3. \A q \in Runs : (IF Begun(q) THEN init[q] \in RunOf(init[q].P) /\ init[q].P \in 1 .. MaxP
                                 ELSE init[q] = [P |-> 0])'
    BY <1>0, <1>6, <1>10, <2>2 DEF Types, InitType, Begun
  <2> QED BY <2>2, <2>3 DEF InitType, Begun
<1>14. /\ history'.begun = b /\ history'.inside = history.inside /\ history'.syncs = history.syncs
       /\ history'.manual = history.manual /\ history'.since = history.since
  BY <1>2, <1>3 DEF Histories
<1>15. Types'
  <2>1. ThreadType'
    BY <1>2, <1>3, <1>11, <1>12 DEF ThreadType
  <2>2. HistoryType'
    BY <1>2, <1>3, <1>7 DEF HistoryType, Histories
  <2>3. HeapType'
    BY <1>0, <1>2, <1>7, StructuresOf, HeapIsStructures, HeapNext DEF Types
  <2> QED BY <1>0, <1>2, <1>13, <2>1, <2>2, <2>3 DEF Types, MachineType
<1>16. \A q \in Runs : Begun(q) => q # r /\ init'[q] = init[q]
  BY <1>7, <1>13
<1>17. Grown
  <2>1. \A v \in Threads : /\ thread[v].pc = "exited" => thread'[v].pc = "exited"
                           /\ thread[v].pc # "none" => thread'[v].pc # "none"
    BY <1>2, <1>11, <1>12
  <2> QED BY <1>7, <1>14, <1>16, <2>1 DEF Grown, Begun
<1>18. \A o \in heap : o \in heap'
  BY <1>2
<1>19. ASSUME NEW u \in Threads, u # t PROVE PlacedThread(u)'
  <2>1. Seated(u) /\ Pending(u) /\ ThreadOK(u)
    BY <1>0 DEF Placed
  <2>2. thread'[u] = thread[u] /\ history'.inside[u] = history.inside[u]
    BY <1>11, <1>14, <1>19
  <2>3. thread[u].pc = "spawning" => init'[thread[u].run].threads = init[thread[u].run].threads
    <3>1. thread[u].pc = "spawning" => thread[u].run \in Runs /\ Begun(thread[u].run)
      BY <1>0, <2>1, SeatType DEF ThreadOK
    <3> QED BY <1>16, <3>1
  <2>4. thread[u].init_data # NoRun =>
       /\ thread[u].pc # "spawning" => init'[thread[u].init_data].P = init[thread[u].init_data].P
       /\ thread[u].pc \notin {"spawning", "exited"} => InitData(thread[u].init_data) \in heap'
       /\ \A v \in Threads : v # u => thread'[v].init_data # thread[u].init_data
    <3> SUFFICES ASSUME thread[u].init_data # NoRun
                 PROVE  /\ thread[u].pc # "spawning" => init'[thread[u].init_data].P = init[thread[u].init_data].P
                        /\ thread[u].pc \notin {"spawning", "exited"} => InitData(thread[u].init_data) \in heap'
                        /\ \A v \in Threads : v # u => thread'[v].init_data # thread[u].init_data
      OBVIOUS
    <3>1. thread[u].init_data \in Runs /\ thread[u].init_data # r
      BY <1>4, <1>7, <1>19
    <3>2. init'[thread[u].init_data].P = init[thread[u].init_data].P
      BY <1>13, <3>1
    <3>3. \A v \in Threads : v # u => thread[v].init_data # thread[u].init_data
      BY <2>1 DEF Pending
    <3>4. \A v \in Threads : v # u => thread'[v].init_data # thread[u].init_data
      BY <1>11, <1>12, <3>1, <3>3
    <3>5. thread[u].pc \notin {"spawning", "exited"} => InitData(thread[u].init_data) \in heap'
      BY <1>18, <2>1 DEF Pending
    <3> QED BY <3>2, <3>4, <3>5
  <2>5. Beside(u)
    BY <1>18, <2>2, <2>3, <2>4 DEF Beside
  <2> QED BY <1>0, <1>15, <1>17, <2>5, BesideStep
<1>20. PlacedThread(t)'
  <2>1. Inside(t)' = Inside(t) /\ Innermost(t)' = Innermost(t)
    BY <1>14 DEF Inside, Innermost
  <2>2. ThreadOK(t)' /\ Joined(t)'
    <3>1. PICK x, L, i : x = thread'[t] /\ L = Inside(t) /\ i = init'[r].prev_data
      OBVIOUS
    <3>2. /\ x.pc = "spawning" /\ x.id = 0 /\ x.run = r /\ x.init_data = r /\ x.thread_data = Innermost(t)
          /\ i = Innermost(t)
          /\ L = <<>> => t = 0
          /\ L # <<>> => Last(L)[1] < r
      BY <1>7, <1>9, <1>10, <1>12, <1>13, <3>1
    <3>3. x.pc \notin {"none", "main", "born", "ready", "joining", "exited"} \cup InRun
      BY <3>2 DEF InRun
    <3>4. ThreadOK(t)'
      BY <1>8, <2>1, <3>1, <3>2, <3>3 DEF ThreadOK
    <3> QED BY <3>1, <3>2, <3>4 DEF Joined
  <2>3. Begun(r)' /\ ProcsOf(r)' = 0 .. n - 1
    BY <1>6, <1>10, <1>13 DEF Begun, ProcsOf
  <2>4. Seated(t)'
    <3>1. j.threads[0] = NoThread /\ 0 < n
      BY <1>6, <1>10
    <3> QED BY <1>10, <1>12, <1>13, <2>3, <3>1 DEF Seated
  <2>5. Chain(t)'
    <3>1. \A k \in 1 .. Len(Inside(t)) : Inside(t)[k] \in Runs \X Ids /\ Begun(Inside(t)[k][1])
      <4>1. \A k \in 1 .. Len(Inside(t)) : Inside(t)[k] \in Runs \X Ids
        BY <1>0, Orders
      <4> QED BY <1>5, <4>1 DEF Chain
    <3>2. \A k \in 1 .. Len(Inside(t)) : init'[Inside(t)[k][1]] = init[Inside(t)[k][1]]
      BY <1>16, <3>1
    <3>3. PICK L : L = Inside(t)
      OBVIOUS
    <3>4. /\ \A k \in 1 .. Len(L) - 1 : k \in 1 .. Len(L) /\ k + 1 \in 1 .. Len(L)
          /\ L # <<>> => 1 \in 1 .. Len(L)
      <4>1. L \in Seq(Runs \X Ids)
        BY <1>0, <3>3, Orders
      <4> QED BY <4>1
    <3>5. \A k \in 1 .. Len(L) : init'[L[k][1]] = init[L[k][1]]
      BY <3>2, <3>3
    <3>6. L = Inside(t)' /\ Chain(t)
      BY <1>5, <2>1, <3>3
    <3> QED BY <3>3, <3>4, <3>5, <3>6 DEF Chain, Begun
  <2>6. Pending(t)'
    <3>1. \A u \in Threads : u # t => thread'[u].init_data # r
      BY <1>7, <1>11
    <3> QED BY <1>7, <1>12, <1>14, <2>1, <3>1 DEF Pending
  <2>7. Spawning(t)'
    <3>1. n - 1 < n /\ \A s \in 0 .. n - 1 : j.threads[s] = NoThread <=> s <= n - 1
      BY <1>6, <1>10
    <3> QED BY <1>10, <1>12, <1>13, <2>3, <3>1 DEF Spawning, Run
  <2>8. Spawned(t)'
    <3>1. t # 0 => \E q \in Runs : Begun(q) /\ \E s \in 1 .. init[q].P - 1 : init[q].threads[s] = t
      BY <1>2, <1>5 DEF Spawned
    <3> QED BY <1>16, <3>1 DEF Spawned, Begun
  <2>9. InLiveRuns(t)'
    <3>1. Live(r)'
      BY <1>2, <2>3 DEF Live, InitData
    <3>2. \A q \in Runs : Live(q) => Live(q)'
      BY <1>16, <1>18 DEF Live, Begun, InitData
    <3>3. PICK L : L = Inside(t)
      OBVIOUS
    <3>4. \A k \in 1 .. Len(L) : L[k] \in Runs \X Ids
      BY <1>0, <3>3, Orders
    <3>5. \A k \in 1 .. Len(L) : Live(L[k][1])
      BY <1>5, <3>3 DEF InLiveRuns
    <3>6. \A k \in 1 .. Len(L) : Live(L[k][1])'
      BY <3>2, <3>4, <3>5
    <3> QED BY <1>12, <2>1, <3>1, <3>3, <3>6 DEF InLiveRuns
  <2> QED BY <2>2, <2>4, <2>5, <2>6, <2>7, <2>8, <2>9 DEF PlacedThread
<1>21. Begun(r)' /\ ProcsOf(r)' = 0 .. n - 1 /\ \A s \in 0 .. n - 1 : init'[r].threads[s] = NoThread
  BY <1>6, <1>10, <1>13 DEF Begun, ProcsOf
<1>22. RunOK(r)'
  BY <1>7, <1>14, <1>21 DEF RunOK
<1>23. Placed'
  <2>1. \A q \in Runs : Begun(q)' /\ ~ Begun(q) => RunOK(q)'
    <3>1. \A q \in Runs : q # r => (Begun(q)' <=> Begun(q))
      BY <1>13 DEF Begun
    <3> QED BY <1>22, <3>1
  <2> QED BY <1>0, <1>15, <1>17, <1>19, <1>20, <2>1, PlacedNext
<1>24. ASSUME NEW q \in Runs, q # r PROVE RunSound(q)'
  <2>1. /\ \A o \in heap : o[2] = q => o \in heap'
        /\ \A o \in heap' : o[2] = q => o \in heap
    BY <1>2, <1>24, StructuresDiffer
  <2>2. init'[q] = init[q]
    BY <1>13, <1>24
  <2>3. ASSUME Begun(q), NEW p \in ProcsOf(q)
        PROVE  \/ Stage(q, p)' = Stage(q, p)
               \/ p = thread[t].id /\ Stage(q, p) \in {"user", "away"} /\ Stage(q, p)' \in {"user", "away"}
    <3>1. PICK u : u = init[q].threads[p]
      OBVIOUS
    <3>2. u # NoThread => u \in Threads
      BY <1>0, <2>3, <3>1, SeatOf
    <3>3. CASE u # t
      <4>1. u # NoThread => thread'[u] = thread[u]
        BY <1>11, <3>2, <3>3
      <4> QED BY <2>2, <3>1, <4>1, StageSame
    <3>4. CASE u = t
      <4>1. Stage(q, p)' = "away"
        BY <1>12, <1>24, <2>2, <3>1, <3>4, NoThreadIsNone DEF Stage
      <4>2. CASE thread[t].run = q /\ thread[t].id = p
        <5>1. thread[t].pc = "user"
          BY <1>2, <1>9, <4>2, Constants
        <5>2. Stage(q, p) = "user"
          BY <3>1, <3>4, <4>2, <5>1, NoThreadIsNone DEF Stage, StageOf
        <5> QED BY <4>1, <4>2, <5>2
      <4>3. CASE ~ (thread[t].run = q /\ thread[t].id = p)
        <5>1. Stage(q, p) = "away"
          BY <3>1, <3>4, <4>3, NoThreadIsNone DEF Stage
        <5> QED BY <4>1, <5>1
      <4> QED BY <4>2, <4>3
    <3> QED BY <3>3, <3>4
  <2>4. Aside(q, thread[t].id)
    BY <1>2, <1>14, <2>1, <2>2, <2>3 DEF Aside
  <2> QED BY <1>0, <1>15, <1>17, <1>23, <2>4, AsideStep
<1>25. \A s \in 0 .. n - 1 : Stage(r, s)' = "unborn"
  BY <1>21 DEF Stage
<1>26. HeapOfRun(r)'
  <2>1. \A o \in heap : o[2] = r => o = InitData(r)
    BY <1>0, <1>7 DEF HeapInv, HeapOfRun
  <2>2. ASSUME NEW s PROVE Descriptor(r, s) \notin heap' /\ ThreadData(r, s) \notin heap' /\ Queues(r, s) \notin heap'
    BY <1>2, <2>1, StructuresDiffer
  <2>3. SharedArrays(r) \in heap' /\ InitData(r) \in heap'
    BY <1>2
  <2>4. \A s \in 0 .. n - 1 : HeapOfSeat(r, s)'
    BY <1>25, <2>2 DEF HeapOfSeat, Descriptor, ThreadData, Queues
  <2>5. HeapOf(r)'
    BY <1>21, <2>2, <2>3, <2>4 DEF HeapOf, SharedArrays, Descriptor, ThreadData, Queues
  <2>6. Live(r)'
    BY <1>21, <2>3 DEF Live, InitData
  <2> QED BY <1>21, <2>5, <2>6 DEF HeapOfRun
<1>27. Linked(r)'
  <2>1. \A s \in 0 .. n - 1 : s \in init'[r].threadData <=> Stage(r, s)' \notin {"unborn", "born", "ready"}
    BY <1>10, <1>13, <1>25
  <2> QED BY <1>21, <2>1 DEF Linked
<1>28. /\ history'.since[r] = [syncs |-> 0, failing |-> 0, touched |-> FALSE]
       /\ \A s \in Ids : history'.syncs[r][s] = 0 /\ ~ history'.manual[r][s]
  <2>1. DataOf(r)
    BY <1>0, <1>7 DEF RunSound
  <2> QED BY <1>7, <1>14, <2>1 DEF DataOf
<1>29. DataOf(r)'
  <2>1. /\ ~ Due(init'[r]) /\ init'[r].skipped_checkpoints = 0 /\ ~ init'[r].no_cp /\ ~ init'[r].safe_cp
        /\ init'[r].safe_cp_f \in Nat
    BY <1>10, <1>13
  <2>2. init'[r].safe_cp_f > 0 => 0 <= 0 % init'[r].safe_cp_f
    BY <2>1
  <2> QED BY <1>21, <1>28, <2>1, <2>2 DEF DataOf
<1>30. Accounted(r)'
  <2>1. PICK S, V, h : S = 0 .. n - 1 /\ V = View(r)' /\ h = hp
    OBVIOUS
  <2>2. ProcsOf(r)' = S /\ 0 \in S /\ S \subseteq Ids
    BY <1>6, <1>21, <2>1, Constants
  <2>3. V \in [S -> Views] /\ \A s \in S : V[s] = SeatView(r, s)'
    BY <1>7, <1>15, <1>21, <1>23, <2>1, ViewTypesNext
  <2>4. \A s \in S : V[s].at = "unborn" /\ V[s].A = 0 /\ V[s].M = 0 /\ V[s].E = 0 /\ V[s].y = 0 /\ ~ V[s].man
    <3>1. "sl_condition" \in Arrays /\ "sl_mid_condition" \in Arrays /\ "sl_end_condition" \in Arrays
      BY DEF Arrays
    <3>2. ASSUME NEW s \in S
          PROVE  /\ SeatView(r, s)'.at = "unborn" /\ SeatView(r, s)'.A = 0 /\ SeatView(r, s)'.M = 0
                 /\ SeatView(r, s)'.E = 0 /\ SeatView(r, s)'.y = 0 /\ ~ SeatView(r, s)'.man
      BY <1>10, <1>13, <1>25, <1>28, <2>1, <2>2, <3>1, <3>2 DEF SeatView
    <3> QED BY <2>3, <3>2
  <2>5. h \in BOOLEAN
    BY <1>0, <2>1 DEF Types
  <2>6. PICK du, ma : du = Due(init'[r]) /\ ma = ManualAt[r]
    OBVIOUS
  <2>7. \E c \in Bases : Account(V, S, c, h, FALSE, du, ma)
    BY <2>2, <2>3, <2>4, <2>5, FirstAccount
  <2>8. init'[r].ended = FALSE /\ ~ init'[r].abort
    <3>1. j.ended \in BOOLEAN
      BY <1>10, RunFields
    <3> QED BY <1>10, <1>13, <3>1
  <2>9. InStep(r)'
    BY <1>2, <2>1, <2>2, <2>6, <2>7, <2>8 DEF InStep
  <2> QED BY <2>8, <2>9 DEF Accounted
<1>31. RunSound(r)'
  BY <1>22, <1>26, <1>27, <1>29, <1>30 DEF RunSound
<1> QED BY <1>15, <1>19, <1>20, <1>24, <1>31, TogetherNext

(* What a thread that spawns the others knows of the run. *)
LEMMA SpawningFacts ==
  ASSUME LifeIInv, NEW t \in Threads, thread[t].pc = "spawning", NEW r, r = thread[t].run
  PROVE  /\ r \in Runs /\ r # NoRun /\ Begun(r) /\ Live(r) /\ 0 \in ProcsOf(r) /\ 0 \in Ids
         /\ ProcsOf(r) \subseteq Ids /\ HeapOf(r)
         /\ init[r].threads[0] = NoThread /\ Stage(r, 0) = "unborn"
         /\ init[r] \in RunOf(init[r].P) /\ init[r].P \in Nat /\ ProcsOf(r) = 0 .. init[r].P - 1
         /\ thread[t].id = 0 /\ thread[t].init_data = r /\ thread[t].thread_data = Innermost(t)
         /\ init[r].prev_data = Innermost(t) /\ (Inside(t) = <<>> => t = 0)
         /\ (Inside(t) # <<>> => Last(Inside(t))[1] < r)
         /\ thread[t].count < init[r].P
         /\ \A s \in ProcsOf(r) : init[r].threads[s] = NoThread <=> s <= thread[t].count
         /\ \A u \in Threads : u # t => (thread[u].pc = "spawning" => thread[u].run # r)
<1>0. Types /\ Placed /\ HeapInv
  BY DEF LifeIInv
<1>1. ThreadOK(t) /\ Seated(t) /\ Pending(t) /\ Spawning(t) /\ InLiveRuns(t)
  BY <1>0 DEF Placed, HeapInv
<1>2. /\ r # NoRun /\ thread[t].id = 0 /\ thread[t].init_data = r /\ thread[t].thread_data = Innermost(t)
      /\ init[r].prev_data = Innermost(t) /\ (Inside(t) = <<>> => t = 0)
      /\ (Inside(t) # <<>> => Last(Inside(t))[1] < r)
  BY <1>1 DEF ThreadOK
<1>3. /\ r \in Runs /\ Begun(r) /\ init[r] \in RunOf(init[r].P) /\ init[r].P \in Nat
      /\ 0 \in ProcsOf(r) /\ init[r].threads[0] = NoThread
  BY <1>0, <1>1, <1>2, SeatType DEF Seated
<1>4. ProcsOf(r) = 0 .. init[r].P - 1 /\ ProcsOf(r) \subseteq Ids
  BY <1>0, <1>3, RunType DEF Types
<1>5. Live(r) /\ HeapOf(r)
  BY <1>0, <1>1, <1>2, <1>3 DEF HeapInv, InLiveRuns, HeapOfRun
<1>6. Stage(r, 0) = "unborn"
  BY <1>3 DEF Stage
<1>7. /\ thread[t].count < init[r].P
      /\ \A s \in ProcsOf(r) : init[r].threads[s] = NoThread <=> s <= thread[t].count
  BY <1>1 DEF Spawning, Run
<1>8. \A u \in Threads : u # t => (thread[u].pc = "spawning" => thread[u].run # r)
  BY <1>0, <1>1, <1>2 DEF Placed, ThreadOK, Pending
<1> QED BY <1>2, <1>3, <1>4, <1>5, <1>6, <1>7, <1>8

(* A thread enters a run as its process 0. *)
LEMMA EnteredChain ==
  ASSUME Types, NEW t \in Threads, Chain(t), NEW r \in Runs, NEW M, M = Append(Inside(t), <<r, 0>>),
         Inside(t)' = M, Begun(r)', 0 < init'[r].P, init'[r].threads[0] = t,
         init'[r].prev_data = Innermost(t), Inside(t) = <<>> => t = 0,
         Inside(t) # <<>> => Last(Inside(t))[1] < r,
         \A q \in Runs : Begun(q) =>
           /\ Begun(q)' /\ init'[q].P = init[q].P /\ init'[q].prev_data = init[q].prev_data
           /\ \A s \in Ids : s < init[q].P /\ init[q].threads[s] = t => init'[q].threads[s] = t
  PROVE  Chain(t)'
<1>1. PICK L, n : L = Inside(t) /\ n = Len(L)
  OBVIOUS
<1>2. L \in Seq(Runs \X Ids) /\ n \in Nat
  BY <1>1 DEF Types, HistoryType, Histories, Inside
<1>3. 0 \in Ids
  BY BoundsAssumption DEF Ids
<1>4. /\ Len(M) = n + 1 /\ M[n+1] = <<r, 0>> /\ \A k \in 1 .. n : M[k] = L[k] /\ L[k] \in Runs \X Ids
  BY <1>1, <1>2, <1>3
<1>5. \A k \in 1 .. n :
        Begun(L[k][1])' /\ L[k][2] < init'[L[k][1]].P /\ init'[L[k][1]].threads[L[k][2]] = t
        /\ init'[L[k][1]].prev_data = init[L[k][1]].prev_data
  <2> SUFFICES ASSUME NEW k \in 1 .. n
               PROVE  /\ Begun(L[k][1])' /\ L[k][2] < init'[L[k][1]].P /\ init'[L[k][1]].threads[L[k][2]] = t
                      /\ init'[L[k][1]].prev_data = init[L[k][1]].prev_data
    OBVIOUS
  <2>1. PICK q, s : q = L[k][1] /\ s = L[k][2]
    OBVIOUS
  <2>2. q \in Runs /\ s \in Ids /\ Begun(q) /\ s < init[q].P /\ init[q].threads[s] = t
    BY <1>1, <1>4, <2>1 DEF Chain
  <2>3. Begun(q)' /\ s < init'[q].P /\ init'[q].threads[s] = t /\ init'[q].prev_data = init[q].prev_data
    BY <2>2
  <2> QED BY <2>1, <2>3
<1>6. ASSUME NEW k \in 1 .. n + 1
      PROVE  Begun(M[k][1])' /\ M[k][2] < init'[M[k][1]].P /\ init'[M[k][1]].threads[M[k][2]] = t
  <2>1. CASE k = n + 1
    BY <1>4, <2>1
  <2>2. CASE k # n + 1
    <3>1. k \in 1 .. n
      BY <1>2, <2>2
    <3> QED BY <1>4, <1>5, <3>1
  <2> QED BY <2>1, <2>2
<1>7. ASSUME NEW k \in 1 .. n
      PROVE  M[k+1][2] = 0 /\ init'[M[k+1][1]].prev_data = M[k] /\ M[k][1] < M[k+1][1]
  <2>1. CASE k = n
    <3>1. L # <<>> /\ Last(L) = L[n]
      BY <1>1, <1>2, <1>7, <2>1 DEF Last
    <3>2. Innermost(t) = L[n]
      BY <1>1, <3>1 DEF Innermost
    <3> QED BY <1>1, <1>4, <2>1, <3>1, <3>2
  <2>2. CASE k # n
    <3>1. k \in 1 .. n - 1 /\ k + 1 \in 1 .. n
      BY <1>2, <2>2
    <3>2. L[k+1][2] = 0 /\ init[L[k+1][1]].prev_data = L[k] /\ L[k][1] < L[k+1][1]
      BY <1>1, <3>1 DEF Chain
    <3> QED BY <1>4, <1>5, <3>1, <3>2
  <2> QED BY <2>1, <2>2
<1>8. M # <<>> /\ IF t = 0 THEN M[1][2] = 0 /\ init'[M[1][1]].prev_data = NoData ELSE M[1][2] # 0
  <2>0. M # <<>>
    BY <1>2, <1>4
  <2>1. CASE L = <<>>
    <3>1. M[1] = <<r, 0>> /\ Innermost(t) = NoData /\ t = 0
      BY <1>1, <1>4, <2>1 DEF Innermost
    <3> QED BY <2>0, <3>1
  <2>2. CASE L # <<>>
    <3>1. 1 \in 1 .. n
      BY <1>1, <1>2, <2>2
    <3>2. M[1] = L[1] /\ init'[L[1][1]].prev_data = init[L[1][1]].prev_data
      BY <1>4, <1>5, <3>1
    <3>3. IF t = 0 THEN L[1][2] = 0 /\ init[L[1][1]].prev_data = NoData ELSE L[1][2] # 0
      BY <1>1, <2>2 DEF Chain
    <3> QED BY <2>0, <3>2, <3>3
  <2> QED BY <2>1, <2>2
<1>9. Len(M) = n + 1 /\ (n + 1) - 1 = n
  BY <1>2, <1>4
<1>10. \A k \in 1 .. Len(M) :
         Begun(M[k][1])' /\ M[k][2] < init'[M[k][1]].P /\ init'[M[k][1]].threads[M[k][2]] = t
  BY <1>6, <1>9
<1>11. \A k \in 1 .. Len(M) - 1 :
         M[k+1][2] = 0 /\ init'[M[k+1][1]].prev_data = M[k] /\ M[k][1] < M[k+1][1]
  BY <1>7, <1>9
<1> QED BY ONLY <1>8, <1>10, <1>11, Inside(t)' = M DEF Chain

(* The account of a run whose process 0 begins. *)
LEMMA MasterAccount ==
  ASSUME Types, Types', Placed, Placed', NEW r \in Runs, Begun(r), 0 \in ProcsOf(r),
         init'[r].P = init[r].P, SameData(init[r], init'[r]),
         init'[r].ended = init[r].ended, init'[r].abort = init[r].abort, hp' = hp,
         history'.syncs[r] = history.syncs[r], history'.manual[r] = history.manual[r],
         \A p \in ProcsOf(r) : p # 0 => /\ Stage(r, p)' = Stage(r, p)
                                        /\ \A a \in Arrays : init'[r].arrived[a][p] = init[r].arrived[a][p],
         Stage(r, 0) \in Early, Stage(r, 0)' = IF hp THEN "begin" ELSE "user",
         \A a \in Arrays : init'[r].arrived[a][0] =
            init[r].arrived[a][0] + (IF hp /\ a = "sl_condition" THEN 1 ELSE 0),
         Live(r), Accounted(r)
  PROVE  Accounted(r)'
<1>1. ProcsOf(r)' = ProcsOf(r) /\ Begun(r)'
  BY DEF ProcsOf, Begun
<1>2. ASSUME init[r].abort PROVE Aborted(r)'
  <2>1. Aborted(r)
    BY <1>2 DEF Accounted
  <2>2. ASSUME NEW p \in ProcsOf(r)
        PROVE  /\ Stage(r, p)' \notin {"synced", "delivering", "checkpointing", "ended", "leaving", "joining"}
               /\ p = 0 => Stage(r, p)' \notin {"due", "manual"}
    <3>1. CASE p = 0
      BY <3>1
    <3>2. CASE p # 0
      BY <2>1, <2>2, <3>2 DEF Aborted
    <3> QED BY <3>1, <3>2
  <2> QED BY <1>1, <2>2 DEF Aborted
<1>3. ASSUME ~ init[r].abort PROVE InStep(r)'
  <2>1. PICK b \in Bases : Account(View(r), ProcsOf(r), b, hp, init[r].ended, Due(init[r]), ManualAt[r])
    BY <1>3 DEF Accounted, InStep
  <2>2. View(r) \in [ProcsOf(r) -> Views] /\ \A p \in ProcsOf(r) : View(r)[p] = SeatView(r, p)
    BY ViewType
  <2>3. View(r)' \in [ProcsOf(r) -> Views] /\ \A p \in ProcsOf(r) : View(r)'[p] = SeatView(r, p)'
    BY <1>1, ViewTypesNext
  <2>4. ASSUME NEW p \in ProcsOf(r), p # 0 PROVE SeatView(r, p)' = SeatView(r, p)
    BY <2>4 DEF SeatView, Arrays
  <2>5. Moves(View(r), View(r)', 0, ProcsOf(r))
    BY <2>2, <2>3, <2>4 DEF Moves
  <2>6. /\ View(r)[0] = SeatView(r, 0) /\ View(r)'[0] = SeatView(r, 0)' /\ View(r)[0] \in Views
    BY <2>2, <2>3
  <2>7. View(r)[0].A \in Nat /\ View(r)[0].M \in Nat /\ View(r)[0].E \in Nat /\ View(r)[0].at = Stage(r, 0)
    BY <2>6, ViewFields DEF SeatView
  <2>8. /\ hp => Step(View(r)[0], View(r)'[0], "begin", 1, 0, 0)
        /\ ~ hp => Step(View(r)[0], View(r)'[0], "user", 0, 0, 0)
    BY <2>6, <2>7 DEF Step, Arriving, SeatView, Arrays
  <2>9. PICK h, en, du, ma, S, V, W :
          /\ h = hp /\ en = init[r].ended /\ du = Due(init[r]) /\ ma = ManualAt[r] /\ S = ProcsOf(r)
          /\ V = View(r) /\ W = View(r)'
    OBVIOUS
  <2>10. init[r].ended \in BOOLEAN /\ Due(init'[r]) = Due(init[r])
    BY RunType, RunFields DEF Types, SameData, Due, CpFrequency
  <2>11. h \in BOOLEAN /\ en \in BOOLEAN /\ du \in BOOLEAN
    BY <2>9, <2>10, DueIsBoolean DEF Types
  <2>12. Account(V, S, b, h, en, du, ma) /\ b \in Bases
    BY <2>1, <2>9
  <2>13. Moves(V, W, 0, S) /\ V[0].at \in Early
    BY <2>5, <2>7, <2>9
  <2>14. CASE h
    <3>1. Step(V[0], W[0], "begin", 1, 0, 0)
      BY <2>8, <2>9, <2>14
    <3>2. PICK z : z = 0
      OBVIOUS
    <3>3. Moves(V, W, z, S) /\ V[z].at \in Early /\ Step(V[z], W[z], "begin", 1, 0, 0)
      BY <2>13, <3>1, <3>2
    <3>4. Account(W, S, b, h, en, du, ma)
      BY ONLY <2>11, <2>12, <2>14, <3>3, AnnounceMove, Zenon
    <3> QED BY <1>1, <2>9, <2>10, <3>4 DEF InStep
  <2>15. CASE ~ h
    <3>1. Step(V[0], W[0], "user", 0, 0, 0)
      BY <2>8, <2>9, <2>15
    <3>2. Account(W, S, b, h, en, du, ma)
      BY <2>11, <2>12, <2>13, <2>15, <3>1, BeginMove
    <3> QED BY <1>1, <2>9, <2>10, <3>2 DEF InStep
  <2> QED BY <2>14, <2>15
<1> QED BY <1>2, <1>3 DEF Accounted

(* The calling thread becomes process 0 and waits for the others. *)
LEMMA StartMasterStep ==
  ASSUME LifeIInv, NEW t \in Threads, StartMaster(t)
  PROVE  LifeIInv'
<1>0. Types /\ Placed /\ HeapInv /\ LinkedInv /\ \A q \in Runs : RunSound(q)
  BY EachRun DEF LifeIInv
<1>1. PICK r, i, j, x, T :
        /\ r = thread[t].run /\ T = [init[r].threads EXCEPT ![0] = t]
        /\ i = [init[r] EXCEPT !.threads = T, !.threadData = init[r].threadData \cup {0}]
        /\ j = (IF hp THEN Announced(i, 0, "sl_condition") ELSE i)
        /\ x = (IF hp THEN Waiting(t, "sl_condition", "user") ELSE [thread[t] EXCEPT !.pc = "user"])
  OBVIOUS
<1>2. /\ thread[t].pc = "spawning" /\ thread[t].count = 0
      /\ heap' = heap \cup {ThreadData(r, 0), Queues(r, 0)}
      /\ thread' = [thread EXCEPT ![t] = [x EXCEPT !.thread_data = <<r, 0>>, !.init_data = NoRun]]
      /\ hp' = hp /\ machine' = machine /\ failing' = failing /\ fatal' = fatal
  BY <1>1 DEF StartMaster
<1>3. init' = [init EXCEPT ![r] = j] /\ history' = [history EXCEPT !.inside[t] = Append(@, <<r, 0>>)]
  BY <1>1 DEF StartMaster, Run
<1>4. thread \in [Threads -> Records] /\ thread[t] \in Records
  BY <1>0 DEF Types, ThreadType
<1>5. /\ r \in Runs /\ r # NoRun /\ Begun(r) /\ Live(r) /\ 0 \in ProcsOf(r) /\ 0 \in Ids
      /\ ProcsOf(r) \subseteq Ids /\ HeapOf(r)
      /\ init[r].threads[0] = NoThread /\ Stage(r, 0) = "unborn"
      /\ init[r] \in RunOf(init[r].P) /\ init[r].P \in Nat /\ ProcsOf(r) = 0 .. init[r].P - 1
      /\ thread[t].id = 0 /\ thread[t].init_data = r
      /\ init[r].prev_data = Innermost(t) /\ (Inside(t) = <<>> => t = 0)
      /\ (Inside(t) # <<>> => Last(Inside(t))[1] < r)
      /\ \A u \in Threads : u # t => (thread[u].pc = "spawning" => thread[u].run # r)
  BY <1>1, <1>2, SpawningFacts
<1>6. /\ x \in Records /\ x.pc = (IF hp THEN "wait" ELSE "user") /\ x.run = r /\ x.id = 0
      /\ hp => x.on = "sl_condition" /\ x.then = "user"
  <2>1. "wait" \in PCs /\ "user" \in PCs /\ "user" \in Targets /\ "sl_condition" \in Arrays
    BY DEF PCs, Targets, Arrays
  <2> QED BY <1>1, <1>4, <1>5, <2>1 DEF Waiting, Records
<1>7. /\ thread'[t] = [x EXCEPT !.thread_data = <<r, 0>>, !.init_data = NoRun]
      /\ \A u \in Threads : u # t => thread'[u] = thread[u]
  BY <1>2, <1>4
<1>8. /\ thread'[t] \in Records /\ thread'[t].pc = (IF hp THEN "wait" ELSE "user")
      /\ thread'[t].run = r /\ thread'[t].id = 0 /\ thread'[t].init_data = NoRun
      /\ thread'[t].thread_data = <<r, 0>>
      /\ hp => thread'[t].on = "sl_condition" /\ thread'[t].then = "user"
  <2>1. <<r, 0>> \in Seats
    BY <1>5 DEF Seats
  <2> QED BY <1>6, <1>7, <2>1 DEF Records
<1>9. /\ T \in [0 .. init[r].P - 1 -> Threads \cup {NoThread}] /\ T[0] = t
      /\ \A s \in ProcsOf(r) : s # 0 => T[s] = init[r].threads[s]
  BY <1>1, <1>5, RunFields
<1>10. /\ i \in RunOf(init[r].P) /\ i.P = init[r].P /\ i.threads = T /\ i.abort = init[r].abort
       /\ i.prev_data = init[r].prev_data /\ SameData(init[r], i) /\ i.arrived = init[r].arrived
       /\ i.ended = init[r].ended /\ i.threadData = init[r].threadData \cup {0}
  BY <1>1, <1>5, <1>9 DEF RunOf, SameData
<1>11. /\ j \in RunOf(init[r].P) /\ j.P = init[r].P /\ j.threads = T /\ j.abort = init[r].abort
       /\ j.prev_data = init[r].prev_data /\ SameData(init[r], j)
       /\ j.ended = init[r].ended /\ j.threadData = init[r].threadData \cup {0}
       /\ \A a \in Arrays, s \in ProcsOf(r) : j.arrived[a][s] = init[r].arrived[a][s] +
            (IF hp /\ a = "sl_condition" /\ s = 0 THEN 1 ELSE 0)
  <2>0. \A a \in Arrays, s \in ProcsOf(r) : init[r].arrived[a][s] \in Nat
    BY <1>5, RunFields
  <2>1. CASE hp
    <3>1. "sl_condition" \in Arrays /\ 0 \in 0 .. init[r].P - 1
      BY <1>5 DEF Arrays
    <3>2. /\ j \in RunOf(init[r].P) /\ SameShape(i, j) /\ SameData(i, j) /\ j.ended = i.ended
          /\ OneArrival(i, j, 0, "sl_condition")
      <4>1. j = Announced(i, 0, "sl_condition")
        BY <1>1, <2>1
      <4> QED BY <1>5, <1>10, <3>1, <4>1, AnnouncedEffect
    <3>3. SameData(init[r], j)
      BY <1>10, <3>2 DEF SameData
    <3>4. \A a \in Arrays, s \in ProcsOf(r) : j.arrived[a][s] = init[r].arrived[a][s] +
            (IF a = "sl_condition" /\ s = 0 THEN 1 ELSE 0)
      BY <1>5, <1>10, <2>0, <3>2 DEF OneArrival
    <3> QED BY <1>10, <2>1, <3>2, <3>3, <3>4 DEF SameShape
  <2>2. CASE ~ hp
    <3>1. j = i
      BY <1>1, <2>2
    <3> QED BY <1>10, <2>0, <2>2, <3>1
  <2> QED BY <2>1, <2>2
<1>12. InitType' /\ init'[r] = j /\ \A q \in Runs : q # r => init'[q] = init[q]
  BY <1>0, <1>3, <1>5, <1>11, InitUpdate DEF Types
<1>13. /\ HistoryType' /\ Inside(t)' = Append(Inside(t), <<r, 0>>) /\ history'.begun = history.begun
       /\ history'.syncs = history.syncs /\ history'.manual = history.manual /\ history'.since = history.since
       /\ \A u \in Threads : u # t => history'.inside[u] = history.inside[u]
  <2>1. history \in Histories /\ history.inside \in [Threads -> Seq(Runs \X Ids)]
    BY <1>0 DEF Types, HistoryType, Histories
  <2>2. PICK L : L = [history.inside EXCEPT ![t] = Append(history.inside[t], <<r, 0>>)]
    OBVIOUS
  <2>3. history' = [history EXCEPT !.inside = L]
    BY <1>3, <2>2
  <2>4. Append(history.inside[t], <<r, 0>>) \in Seq(Runs \X Ids)
    BY <1>5, <2>1
  <2>5. L \in [Threads -> Seq(Runs \X Ids)] /\ L[t] = Append(history.inside[t], <<r, 0>>)
        /\ \A u \in Threads : u # t => L[u] = history.inside[u]
    BY <2>1, <2>2, <2>4
  <2> QED BY <2>1, <2>3, <2>5 DEF HistoryType, Histories, Inside
<1>14. Types'
  <2>1. ThreadType'
    BY <1>2, <1>4, <1>7, <1>8 DEF ThreadType
  <2>2. HeapType'
    BY <1>0, <1>2, <1>5, StructuresOf, HeapIsStructures, HeapNext DEF Types
  <2> QED BY <1>0, <1>2, <1>12, <1>13, <2>1, <2>2 DEF Types, MachineType
<1>15. \A q \in Runs : /\ init'[q].P = init[q].P /\ init'[q].abort = init[q].abort
                       /\ init'[q].prev_data = init[q].prev_data
                       /\ (Begun(q)' <=> Begun(q)) /\ ProcsOf(q)' = ProcsOf(q)
  BY <1>11, <1>12 DEF Begun, ProcsOf
<1>16. \A q \in Runs : (InitData(q) \in heap' <=> InitData(q) \in heap) /\ (Live(q)' <=> Live(q))
  <2>1. \A q \in Runs : InitData(q) \in heap' <=> InitData(q) \in heap
    BY <1>2, StructuresDiffer
  <2> QED BY <1>15, <2>1 DEF Live, InitData
<1>17. Grown
  <2>1. history.begun \in Nat
    BY <1>0, Orders
  <2>2. \A v \in Threads : /\ thread[v].pc = "exited" => thread'[v].pc = "exited"
                           /\ thread[v].pc # "none" => thread'[v].pc # "none"
    BY <1>2, <1>7, <1>8
  <2>3. ASSUME NEW q \in Runs, NEW p \in ProcsOf(q)
        PROVE  \/ init'[q].threads[p] = init[q].threads[p]
               \/ init[q].threads[p] = NoThread /\ thread'[init'[q].threads[p]].pc # "none"
    <3>1. CASE q = r /\ p = 0
      BY <1>5, <1>8, <1>9, <1>11, <1>12, <3>1
    <3>2. CASE q = r /\ p # 0
      BY <1>9, <1>11, <1>12, <2>3, <3>2
    <3>3. CASE q # r
      BY <1>12, <3>3
    <3> QED BY <3>1, <3>2, <3>3
  <2> QED BY <1>13, <1>15, <2>1, <2>2, <2>3 DEF Grown
<1>18. ASSUME NEW u \in Threads, u # t PROVE PlacedThread(u)'
  <2>1. Seated(u) /\ Pending(u) /\ ThreadOK(u)
    BY <1>0 DEF Placed
  <2>2. thread[u].run \in Runs \cup {NoRun} /\ thread[u].init_data \in Runs \cup {NoRun}
    BY <1>0, ThreadFields DEF Types, ThreadType
  <2>3. thread[u].pc = "spawning" => init'[thread[u].run].threads = init[thread[u].run].threads
    <3>1. thread[u].pc = "spawning" => thread[u].run \in Runs /\ thread[u].run # r
      BY <1>5, <1>18, <2>1, <2>2 DEF ThreadOK
    <3> QED BY <1>12, <3>1
  <2>4. thread[u].init_data # NoRun =>
       /\ init'[thread[u].init_data].P = init[thread[u].init_data].P
       /\ thread[u].pc \notin {"spawning", "exited"} => InitData(thread[u].init_data) \in heap'
       /\ \A v \in Threads : v # u => thread'[v].init_data # thread[u].init_data
    <3>1. thread[u].init_data # NoRun => \A v \in Threads : v # u => thread[v].init_data # thread[u].init_data
      BY <2>1 DEF Pending
    <3>2. thread[u].init_data # NoRun => \A v \in Threads : v # u => thread'[v].init_data # thread[u].init_data
      BY <1>7, <1>8, <3>1
    <3>3. thread[u].init_data # NoRun /\ thread[u].pc \notin {"spawning", "exited"} => InitData(thread[u].init_data) \in heap'
      BY <1>2, <2>1 DEF Pending
    <3>4. thread[u].init_data # NoRun => init'[thread[u].init_data].P = init[thread[u].init_data].P
      BY <1>15, <2>2
    <3> QED BY <3>2, <3>3, <3>4
  <2>5. Beside(u)
    BY <1>7, <1>13, <1>16, <1>18, <2>3, <2>4 DEF Beside
  <2> QED BY <1>0, <1>14, <1>17, <2>5, BesideStep
<1>19. PlacedThread(t)'
  <2>1. Chain(t) /\ Spawned(t) /\ InLiveRuns(t)
    BY <1>0 DEF Placed, HeapInv
  <2>2. PICK L, M, n, y : L = Inside(t) /\ M = Append(L, <<r, 0>>) /\ n = Len(L) /\ y = thread'[t]
    OBVIOUS
  <2>3. /\ M # <<>> /\ Last(M) = <<r, 0>> /\ Len(M) = n + 1 /\ n \in Nat /\ M[n+1] = <<r, 0>>
        /\ \A k \in 1 .. n : M[k] = L[k] /\ L[k] \in Runs \X Ids
    <3>1. L \in Seq(Runs \X Ids) /\ <<r, 0>> \in Runs \X Ids
      BY <1>0, <1>5, <2>2, Orders
    <3>2. Len(M) = n + 1 /\ n \in Nat /\ M[n+1] = <<r, 0>> /\ \A k \in 1 .. n : M[k] = L[k] /\ L[k] \in Runs \X Ids
      BY <2>2, <3>1
    <3>3. M # <<>>
      BY <3>2
    <3>4. Last(M) = M[Len(M)]
      BY DEF Last
    <3> QED BY <3>2, <3>3, <3>4
  <2>4. ThreadOK(t)'
    <3>1. y.pc \in InRun /\ y.pc \notin {"none", "main", "born", "ready", "spawning", "joining", "exited"}
      BY <1>8, <2>2 DEF InRun
    <3>2. LocalOK(y)
      BY <1>8, <2>2 DEF LocalOK
    <3>3. y.run = r /\ y.id = 0 /\ y.thread_data = <<r, 0>> /\ Inside(t)' = M
      BY <1>8, <1>13, <2>2
    <3> QED BY <1>5, <2>2, <2>3, <3>1, <3>2, <3>3 DEF ThreadOK
  <2>5. Seated(t)'
    <3>1. 0 < init[r].P
      BY <1>5
    <3>2. init'[r].threads[0] = t /\ Begun(r)' /\ 0 < init'[r].P
      BY <1>5, <1>9, <1>11, <1>12, <1>15, <3>1
    <3> QED BY <1>8, <3>2 DEF Seated
  <2>6. Chain(t)'
    <3>1. \A q \in Runs : Begun(q) =>
           /\ Begun(q)' /\ init'[q].P = init[q].P /\ init'[q].prev_data = init[q].prev_data
           /\ \A s \in Ids : s < init[q].P /\ init[q].threads[s] = t => init'[q].threads[s] = t
      <4> SUFFICES ASSUME NEW q \in Runs, Begun(q), NEW s \in Ids, s < init[q].P, init[q].threads[s] = t
                   PROVE  init'[q].threads[s] = t
        BY <1>15
      <4>1. s \in ProcsOf(q)
        BY <1>0, Constants, RunType DEF Types
      <4> QED BY <1>5, <1>9, <1>11, <1>12, <4>1, NoThreadIsNone
    <3>2. 0 < init[r].P /\ init'[r].threads[0] = t /\ init'[r].P = init[r].P /\ Begun(r)'
      BY <1>5, <1>9, <1>11, <1>12, <1>15
    <3>3. init'[r].prev_data = Innermost(t)
      BY <1>5, <1>15
    <3>4. Inside(t)' = M /\ M = Append(Inside(t), <<r, 0>>) /\ 0 < init'[r].P
      BY <1>13, <2>2, <3>2
    <3> QED BY <1>0, <1>5, <2>1, <3>1, <3>2, <3>3, <3>4, EnteredChain
  <2>7. Pending(t)' /\ Spawning(t)' /\ Joined(t)'
    BY <1>8 DEF Pending, Spawning, Joined
  <2>8. Spawned(t)'
    <3>1. ASSUME t # 0 PROVE \E q \in Runs : Begun(q)' /\ \E s \in 1 .. init'[q].P - 1 : init'[q].threads[s] = t
      <4>1. PICK q \in Runs : Begun(q) /\ \E s \in 1 .. init[q].P - 1 : init[q].threads[s] = t
        BY <1>2, <2>1, <3>1 DEF Spawned
      <4>2. PICK s \in 1 .. init[q].P - 1 : init[q].threads[s] = t
        BY <4>1
      <4>3. s \in ProcsOf(q)
        BY <1>0, <4>1, RunType DEF Types
      <4>4. init'[q].threads[s] = t
        BY <1>5, <1>9, <1>11, <1>12, <4>2, <4>3, NoThreadIsNone
      <4> QED BY <1>15, <4>1, <4>4
    <3> QED BY <3>1 DEF Spawned
  <2>9. InLiveRuns(t)'
    <3>1. \A k \in 1 .. n : Live(L[k][1])
      BY <2>1, <2>2 DEF InLiveRuns
    <3>2. ASSUME NEW k \in 1 .. Len(M) PROVE Live(M[k][1])'
      <4>1. CASE k = n + 1
        BY <1>5, <1>16, <2>3, <4>1
      <4>2. CASE k # n + 1
        <5>1. k \in 1 .. n
          BY <2>3, <4>2
        <5>2. PICK q : q = L[k][1]
          OBVIOUS
        <5>3. q \in Runs /\ Live(q) /\ M[k][1] = q
          BY <2>3, <3>1, <5>1, <5>2
        <5> QED BY <1>16, <5>3
      <4> QED BY <4>1, <4>2
    <3>3. Live(r)'
      BY <1>5, <1>16
    <3>4. Inside(t)' = M
      BY <1>13, <2>2
    <3> QED BY <1>8, <3>2, <3>3, <3>4 DEF InLiveRuns
  <2> QED BY <2>4, <2>5, <2>6, <2>7, <2>8, <2>9 DEF PlacedThread
<1>20. Placed'
  BY <1>0, <1>14, <1>15, <1>17, <1>18, <1>19, PlacedNext
<1>21. ASSUME NEW q \in Runs, q # r PROVE RunSound(q)'
  <2>1. /\ \A o \in heap : o[2] = q => o \in heap'
        /\ \A o \in heap' : o[2] = q => o \in heap
    BY <1>2, <1>21, StructuresDiffer
  <2>2. thread'[t].run = thread[t].run /\ thread'[t].id = thread[t].id /\ q # thread[t].run
    BY <1>1, <1>5, <1>8, <1>21
  <2>3. Aside(q, 0)
    BY <1>0, <1>2, <1>7, <1>12, <1>13, <1>21, <2>1, <2>2, OthersAside
  <2> QED BY <1>0, <1>14, <1>17, <1>20, <2>3, AsideStep
<1>22. Stage(r, 0)' = (IF hp THEN "begin" ELSE "user") /\ \A p \in ProcsOf(r) : p # 0 => Stage(r, p)' = Stage(r, p)
  <2>1. Stage(r, 0)' = StageOf(thread'[t])
    <3>1. init'[r].threads[0] = t
      BY <1>9, <1>11, <1>12
    <3> QED BY <1>8, <3>1, NoThreadIsNone DEF Stage
  <2>2. StageOf(thread'[t]) = IF hp THEN "begin" ELSE "user"
    BY <1>8 DEF StageOf
  <2>3. ASSUME NEW p \in ProcsOf(r), p # 0 PROVE Stage(r, p)' = Stage(r, p)
    <3>1. PICK u : u = init[r].threads[p]
      OBVIOUS
    <3>2. (u # NoThread => u \in Threads) /\ init'[r].threads[p] = u
      BY <1>0, <1>5, <1>9, <1>11, <1>12, <2>3, <3>1, SeatOf
    <3>3. CASE u = t
      BY <1>5, <1>8, <2>3, <3>1, <3>2, <3>3, StageSame
    <3>4. CASE u # t
      <4>1. u # NoThread => thread'[u] = thread[u]
        BY <1>7, <3>2, <3>4
      <4> QED BY <3>1, <3>2, <4>1, StageSame
    <3> QED BY <3>3, <3>4
  <2> QED BY <2>1, <2>2, <2>3
<1>23. RunSound(r)'
  <2>1. RunOK(r)'
    BY <1>5, <1>20 DEF Placed
  <2>2. HeapOfRun(r)'
    <3>1. ASSUME NEW p \in ProcsOf(r), p # 0 PROVE HeapOfSeat(r, p)'
      <4>1. HeapOfSeat(r, p)
        BY <1>5, <3>1 DEF HeapOf
      <4>2. /\ Descriptor(r, p) \in heap' <=> Descriptor(r, p) \in heap
            /\ ThreadData(r, p) \in heap' <=> ThreadData(r, p) \in heap
            /\ Queues(r, p) \in heap' <=> Queues(r, p) \in heap
        BY <1>2, <3>1, StructuresDiffer
      <4>3. Stage(r, p)' = Stage(r, p) /\ init'[r].abort = init[r].abort
        BY <1>5, <1>15, <1>22, <3>1
      <4> QED BY <4>1, <4>2, <4>3 DEF HeapOfSeat, Descriptor, ThreadData, Queues
    <3>2. HeapOfSeat(r, 0)'
      <4>1. Descriptor(r, 0) \notin heap
        BY <1>5 DEF HeapOf, HeapOfSeat
      <4>2. Descriptor(r, 0) \notin heap' /\ ThreadData(r, 0) \in heap' /\ Queues(r, 0) \in heap'
        BY <1>2, <4>1, StructuresDiffer
      <4>3. Stage(r, 0)' \notin {"unborn", "born", "joining", "exited"}
        BY <1>22
      <4> QED BY <4>2, <4>3 DEF HeapOfSeat, Descriptor, ThreadData, Queues
    <3>3. SharedArrays(r) \in heap'
      BY <1>2, <1>5 DEF HeapOf
    <3>4. ASSUME NEW p \in Ids \ ProcsOf(r)
          PROVE  {Descriptor(r, p), ThreadData(r, p), Queues(r, p)} \cap heap' = {}
      <4>1. {Descriptor(r, p), ThreadData(r, p), Queues(r, p)} \cap heap = {} /\ p # 0
        BY <1>5, <3>4 DEF HeapOf
      <4> QED BY <1>2, <4>1, StructuresDiffer
    <3>5. HeapOf(r)'
      BY <1>5, <1>15, <3>1, <3>2, <3>3, <3>4 DEF HeapOf, SharedArrays, Descriptor, ThreadData, Queues
    <3> QED BY <1>5, <1>15, <1>16, <3>5 DEF HeapOfRun
  <2>3. Linked(r)'
    <3>1. Linked(r)
      BY <1>0, <1>5 DEF RunSound
    <3>2. \A p \in ProcsOf(r) : p \in init'[r].threadData <=> Stage(r, p)' \notin {"unborn", "born", "ready"}
      BY <1>5, <1>11, <1>12, <1>22, <3>1 DEF Linked
    <3> QED BY <1>5, <1>15, <3>2 DEF Linked
  <2>4. SameData(init[r], init'[r])
    BY <1>11, <1>12
  <2>5. DataOf(r)'
    <3>1. DataOf(r) /\ Stage(r, 0) \notin DueStages \cup {"exited"}
      BY <1>0, <1>5 DEF RunSound, DueStages
    <3> QED BY <1>0, <1>5, <1>13, <1>15, <1>16, <2>4, <3>1, OwnData
  <2>6. Accounted(r)'
    <3>1. Accounted(r) /\ Stage(r, 0) \in Early
      BY <1>0, <1>5 DEF RunSound, Early
    <3>2. init'[r].P = init[r].P /\ init'[r].ended = init[r].ended /\ init'[r].abort = init[r].abort
          /\ history'.syncs[r] = history.syncs[r] /\ history'.manual[r] = history.manual[r]
      BY <1>5, <1>11, <1>12, <1>13
    <3>3. \A a \in Arrays, s \in ProcsOf(r) : init[r].arrived[a][s] \in Nat
      BY <1>5, RunFields
    <3>4. /\ \A p \in ProcsOf(r) : p # 0 => /\ Stage(r, p)' = Stage(r, p)
                                            /\ \A a \in Arrays : init'[r].arrived[a][p] = init[r].arrived[a][p]
          /\ \A a \in Arrays : init'[r].arrived[a][0] =
               init[r].arrived[a][0] + (IF hp /\ a = "sl_condition" THEN 1 ELSE 0)
      BY <1>5, <1>11, <1>12, <1>22, <3>3
    <3> QED BY <1>0, <1>2, <1>5, <1>14, <1>20, <1>22, <2>4, <3>1, <3>2, <3>4, MasterAccount
  <2> QED BY <2>1, <2>2, <2>3, <2>5, <2>6 DEF RunSound
<1> QED BY <1>14, <1>18, <1>19, <1>21, <1>23, TogetherNext

(* There is always a thread left to be created: every other one has a
   place of its own, and the place to be filled has none. *)
LEMMA ThreadLeft ==
  ASSUME LifeIInv, NEW t \in Threads, thread[t].pc = "spawning", thread[t].count > 0,
         NEW r, NEW s, r = thread[t].run, s = thread[t].count
  PROVE  \E v \in Threads : thread[v].pc = "none"
<1> SUFFICES ASSUME \A v \in Threads : thread[v].pc # "none" PROVE FALSE
  OBVIOUS
<1> DEFINE Others == Threads \ {0}
           Places == Runs \X (1 .. MaxP - 1)
           Free == Places \ {<<r, s>>}
           seat == [v \in Others |-> CHOOSE x \in Free : init[x[1]].threads[x[2]] = v]
<1>0. Types /\ Placed
  BY DEF LifeIInv
<1>1. /\ r \in Runs /\ Begun(r) /\ init[r].P \in Nat /\ ProcsOf(r) = 0 .. init[r].P - 1 /\ s < init[r].P
      /\ \A p \in ProcsOf(r) : init[r].threads[p] = NoThread <=> p <= s
  BY SpawningFacts
<1>2. s \in Nat /\ s \in ProcsOf(r) /\ init[r].threads[s] = NoThread /\ s \in 1 .. MaxP - 1
  <2>1. s \in Nat /\ init[r].P \in 1 .. MaxP
    BY <1>0, <1>1, ThreadFields, RunType DEF Types, ThreadType
  <2>2. s \in ProcsOf(r)
    BY <1>1, <2>1
  <2> QED BY <1>1, <2>1, <2>2, Constants
<1>3. IsFiniteSet(Threads) /\ Cardinality(Threads) = MaxRuns * (MaxP - 1) + 1 /\ 0 \in Threads
      /\ MaxRuns * (MaxP - 1) \in Nat
  <2>1. MaxRuns * (MaxP - 1) \in Nat
    BY BoundsAssumption
  <2> QED BY <2>1, FS_Interval DEF Threads
<1>4. IsFiniteSet(Others) /\ Cardinality(Others) = MaxRuns * (MaxP - 1)
  <2>1. PICK T, n : T = Threads /\ n = MaxRuns * (MaxP - 1)
    OBVIOUS
  <2>2. IsFiniteSet(T) /\ Cardinality(T) = n + 1 /\ 0 \in T /\ n \in Nat
    BY <1>3, <2>1
  <2>3. IsFiniteSet(T \ {0}) /\ Cardinality(T \ {0}) = Cardinality(T) - 1
    BY ONLY <2>2, FS_RemoveElement
  <2>4. IsFiniteSet(T \ {0}) /\ Cardinality(T \ {0}) = n
    BY ONLY <2>2, <2>3
  <2> QED BY <2>1, <2>4
<1>5. IsFiniteSet(Places) /\ Cardinality(Places) = MaxRuns * (MaxP - 1)
  <2>1. /\ IsFiniteSet(Runs) /\ Cardinality(Runs) = MaxRuns
        /\ IsFiniteSet(1 .. MaxP - 1) /\ Cardinality(1 .. MaxP - 1) = MaxP - 1
    BY Constants, FS_Interval DEF Runs
  <2> QED BY <2>1, FS_Product
<1>6. IsFiniteSet(Free) /\ Cardinality(Free) = MaxRuns * (MaxP - 1) - 1
  <2>1. <<r, s>> \in Places
    BY <1>1, <1>2
  <2>2. PICK P, n, x : P = Places /\ n = MaxRuns * (MaxP - 1) /\ x = <<r, s>>
    OBVIOUS
  <2>3. IsFiniteSet(P) /\ Cardinality(P) = n /\ x \in P /\ n \in Nat
    BY <1>3, <1>5, <2>1, <2>2
  <2>4. IsFiniteSet(P \ {x}) /\ Cardinality(P \ {x}) = n - 1
    BY ONLY <2>3, FS_RemoveElement
  <2> QED BY <2>2, <2>4
<1>7. ASSUME NEW v \in Others PROVE \E x \in Free : init[x[1]].threads[x[2]] = v
  <2>1. PICK q \in Runs : Begun(q) /\ \E p \in 1 .. init[q].P - 1 : init[q].threads[p] = v
    BY <1>0 DEF Placed, Spawned
  <2>2. PICK p \in 1 .. init[q].P - 1 : init[q].threads[p] = v
    BY <2>1
  <2>3. p \in 1 .. MaxP - 1
    BY <1>0, <2>1, <2>2, RunType, Constants DEF Types
  <2>4. <<q, p>> # <<r, s>>
    BY <1>2, <2>2, NoThreadIsNone
  <2>5. <<q, p>> \in Free /\ <<q, p>>[1] = q /\ <<q, p>>[2] = p
    BY <2>3, <2>4
  <2> QED BY <2>2, <2>5
<1>8. \A v \in Others : seat[v] \in Free /\ init[seat[v][1]].threads[seat[v][2]] = v
  BY <1>7
<1>9. seat \in [Others -> Free]
  BY <1>8
<1>10. Cardinality(Free) < Cardinality(Others)
  BY <1>3, <1>4, <1>6
<1> HIDE DEF seat, Free, Places, Others
<1>11. PICK v, w \in Others : v # w /\ seat[v] = seat[w]
  BY <1>4, <1>6, <1>9, <1>10, FS_PigeonHole
<1> QED BY <1>8, <1>11

(* The thread that is created is the first that was not. *)
LEMMA FirstLeft ==
  ASSUME NEW T, T \subseteq Nat, T # {}
  PROVE  Min(T) \in T
<1>1. \E n \in T : \A m \in T : ~ (m < n)
  BY LeastNumber
<1>2. \E n \in T : \A m \in T : n =< m
  BY <1>1
<1> QED BY <1>2 DEF Min

(* One more thread is created (bsp.c:156-193). *)
LEMMA SpawnStep ==
  ASSUME LifeIInv, NEW t \in Threads, Spawn(t)
  PROVE  LifeIInv'
<1>0. Types /\ Placed /\ HeapInv /\ LinkedInv /\ \A q \in Runs : RunSound(q)
  BY EachRun DEF LifeIInv
<1>1. PICK r, s, u, T, j :
        /\ r = thread[t].run /\ s = thread[t].count
        /\ u = Min({v \in Threads : thread[v].pc = "none"})
        /\ T = [init[r].threads EXCEPT ![s] = u] /\ j = [init[r] EXCEPT !.threads = T]
  OBVIOUS
<1>2. /\ thread[t].pc = "spawning" /\ s > 0 /\ heap' = heap \cup {Descriptor(r, s)}
      /\ init' = [init EXCEPT ![r] = j]
      /\ hp' = hp /\ machine' = machine /\ failing' = failing /\ fatal' = fatal /\ history' = history
  BY <1>1 DEF Spawn
<1>3. thread' = [thread EXCEPT ![t].count = @ - 1, ![u] = [@ EXCEPT !.pc = "born", !.run = r, !.id = s]]
  BY <1>1 DEF Spawn
<1>4. u \in Threads /\ thread[u].pc = "none"
  <2>1. PICK N : N = {v \in Threads : thread[v].pc = "none"}
    OBVIOUS
  <2>2. N # {}
    <3>1. \E v \in Threads : thread[v].pc = "none"
      BY <1>1, <1>2, ThreadLeft
    <3> QED BY <2>1, <3>1
  <2>3. N \subseteq Nat
    BY <2>1 DEF Threads
  <2>4. u \in N
    BY <1>1, <2>1, <2>2, <2>3, FirstLeft
  <2> QED BY <2>1, <2>4
<1>5. /\ thread[u].run = NoRun /\ thread[u].thread_data = NoData /\ Inside(u) = <<>>
      /\ thread[u].init_data = NoRun /\ u # 0 /\ u # t
  BY <1>0, <1>2, <1>4 DEF Placed, ThreadOK
<1>6. thread \in [Threads -> Records] /\ thread[t] \in Records /\ thread[u] \in Records
  BY <1>0, <1>4 DEF Types, ThreadType
<1>7. /\ r \in Runs /\ r # NoRun /\ Begun(r) /\ Live(r) /\ 0 \in ProcsOf(r) /\ 0 \in Ids
      /\ ProcsOf(r) \subseteq Ids /\ HeapOf(r)
      /\ init[r].threads[0] = NoThread /\ Stage(r, 0) = "unborn"
      /\ init[r] \in RunOf(init[r].P) /\ init[r].P \in Nat /\ ProcsOf(r) = 0 .. init[r].P - 1
      /\ thread[t].id = 0 /\ thread[t].init_data = r /\ s < init[r].P
      /\ \A p \in ProcsOf(r) : init[r].threads[p] = NoThread <=> p <= s
      /\ \A v \in Threads : v # t => (thread[v].pc = "spawning" => thread[v].run # r)
  BY <1>1, <1>2, SpawningFacts
<1>8. /\ s \in Nat /\ s \in ProcsOf(r) /\ s # 0 /\ s \in Ids /\ s - 1 \in Nat /\ s \in 1 .. init[r].P - 1
      /\ init[r].threads[s] = NoThread /\ Stage(r, s) = "unborn"
  <2>1. s \in Nat
    BY <1>1, <1>6, ThreadFields
  <2>2. s \in ProcsOf(r) /\ s # 0 /\ s - 1 \in Nat /\ s \in 1 .. init[r].P - 1
    BY <1>2, <1>7, <2>1
  <2>3. init[r].threads[s] = NoThread
    BY <1>7, <2>1, <2>2
  <2> QED BY <1>7, <2>1, <2>2, <2>3 DEF Stage
<1>9. /\ thread'[t] = [thread[t] EXCEPT !.count = s - 1]
      /\ thread'[u] = [thread[u] EXCEPT !.pc = "born", !.run = r, !.id = s]
      /\ \A v \in Threads : v # t /\ v # u => thread'[v] = thread[v]
      /\ DOMAIN thread' = Threads /\ thread' = [v \in Threads |-> thread'[v]]
  <2>1. PICK x, y : x = [thread[t] EXCEPT !.count = s - 1] /\ y = [thread[u] EXCEPT !.pc = "born", !.run = r, !.id = s]
    OBVIOUS
  <2>2. thread' = [[thread EXCEPT ![t] = x] EXCEPT ![u] = y]
    BY <1>1, <1>3, <1>5, <1>6, <1>4, <2>1
  <2> QED BY <1>4, <1>5, <1>6, <2>1, <2>2
<1>10. /\ thread'[t] \in Records /\ thread'[t].pc = "spawning" /\ thread'[t].run = r /\ thread'[t].id = 0
       /\ thread'[t].init_data = r /\ thread'[t].thread_data = thread[t].thread_data
       /\ thread'[t].count = s - 1
  BY <1>1, <1>2, <1>6, <1>7, <1>8, <1>9 DEF Records
<1>11. /\ thread'[u] \in Records /\ thread'[u].pc = "born" /\ thread'[u].run = r /\ thread'[u].id = s
       /\ thread'[u].init_data = NoRun /\ thread'[u].thread_data = NoData
  <2>1. "born" \in PCs /\ r \in Runs \cup {NoRun}
    BY <1>7 DEF PCs
  <2> QED BY <1>5, <1>6, <1>8, <1>9, <2>1 DEF Records
<1>12. /\ T \in [0 .. init[r].P - 1 -> Threads \cup {NoThread}] /\ T[s] = u
       /\ \A p \in ProcsOf(r) : p # s => T[p] = init[r].threads[p]
  BY <1>1, <1>4, <1>7, <1>8, RunFields
<1>13. /\ j \in RunOf(init[r].P) /\ j.P = init[r].P /\ j.threads = T /\ j.abort = init[r].abort
       /\ j.prev_data = init[r].prev_data /\ SameData(init[r], j) /\ j.arrived = init[r].arrived
       /\ j.ended = init[r].ended /\ j.threadData = init[r].threadData
  BY <1>1, <1>7, <1>12 DEF RunOf, SameData
<1>14. InitType' /\ init'[r] = j /\ \A q \in Runs : q # r => init'[q] = init[q]
  BY <1>0, <1>2, <1>7, <1>13, InitUpdate DEF Types
<1>15. Types'
  <2>1. ThreadType'
    BY <1>6, <1>9, <1>10, <1>11 DEF ThreadType
  <2>2. HeapType'
    BY <1>0, <1>2, <1>7, <1>8, StructuresOf, HeapIsStructures, HeapNext DEF Types
  <2>3. HistoryType'
    BY <1>0, <1>2 DEF Types, HistoryType, Histories
  <2> QED BY <1>0, <1>2, <1>14, <2>1, <2>2, <2>3 DEF Types, MachineType
<1>16. \A q \in Runs : /\ init'[q].P = init[q].P /\ init'[q].abort = init[q].abort
                       /\ init'[q].prev_data = init[q].prev_data
                       /\ (Begun(q)' <=> Begun(q)) /\ ProcsOf(q)' = ProcsOf(q)
  BY <1>13, <1>14 DEF Begun, ProcsOf
<1>17. \A q \in Runs : (InitData(q) \in heap' <=> InitData(q) \in heap) /\ (Live(q)' <=> Live(q))
  <2>1. \A q \in Runs : InitData(q) \in heap' <=> InitData(q) \in heap
    BY <1>2, StructuresDiffer
  <2> QED BY <1>16, <2>1 DEF Live, InitData
<1>18. /\ \A q \in Runs : Begun(q) => \A p \in ProcsOf(q) :
            \/ init'[q].threads[p] = init[q].threads[p]
            \/ q = r /\ p = s /\ init[q].threads[p] = NoThread /\ init'[q].threads[p] = u
       /\ \A q \in Runs : q # r => init'[q].threads = init[q].threads
  BY <1>8, <1>12, <1>13, <1>14
<1>19. Grown
  <2>1. history.begun \in Nat
    BY <1>0, Orders
  <2>2. \A v \in Threads : /\ thread[v].pc = "exited" => thread'[v].pc = "exited"
                           /\ thread[v].pc # "none" => thread'[v].pc # "none"
    BY <1>2, <1>4, <1>9, <1>10
  <2> QED BY <1>2, <1>11, <1>16, <1>18, <2>1, <2>2 DEF Grown
<1>20. ASSUME NEW v \in Threads, v # t, v # u PROVE PlacedThread(v)'
  <2>1. Seated(v) /\ Pending(v) /\ ThreadOK(v)
    BY <1>0 DEF Placed
  <2>2. thread[v].run \in Runs \cup {NoRun} /\ thread[v].init_data \in Runs \cup {NoRun}
    BY <1>0, ThreadFields DEF Types, ThreadType
  <2>3. thread[v].pc = "spawning" => init'[thread[v].run].threads = init[thread[v].run].threads
    <3>1. thread[v].pc = "spawning" => thread[v].run \in Runs /\ thread[v].run # r
      BY <1>7, <1>20, <2>1, <2>2 DEF ThreadOK
    <3> QED BY <1>18, <3>1
  <2>4. thread[v].init_data # NoRun =>
       /\ init'[thread[v].init_data].P = init[thread[v].init_data].P
       /\ thread[v].pc \notin {"spawning", "exited"} => InitData(thread[v].init_data) \in heap'
       /\ \A w \in Threads : w # v => thread'[w].init_data # thread[v].init_data
    <3>1. thread[v].init_data # NoRun => \A w \in Threads : w # v => thread[w].init_data # thread[v].init_data
      BY <2>1 DEF Pending
    <3>2. thread[v].init_data # NoRun => \A w \in Threads : w # v => thread'[w].init_data # thread[v].init_data
      <4>1. ASSUME thread[v].init_data # NoRun, NEW w \in Threads, w # v
            PROVE  thread'[w].init_data # thread[v].init_data
        <5>1. thread[w].init_data # thread[v].init_data /\ thread[t].init_data # thread[v].init_data
          BY <1>20, <3>1, <4>1
        <5>2. CASE w = t
          BY <1>7, <1>10, <5>1, <5>2
        <5>3. CASE w = u
          BY <1>11, <4>1, <5>3
        <5>4. CASE w # t /\ w # u
          BY <1>9, <4>1, <5>1, <5>4
        <5> QED BY <5>2, <5>3, <5>4
      <4> QED BY <4>1
    <3>3. thread[v].init_data # NoRun /\ thread[v].pc \notin {"spawning", "exited"} => InitData(thread[v].init_data) \in heap'
      BY <1>2, <2>1 DEF Pending
    <3>4. thread[v].init_data # NoRun => init'[thread[v].init_data].P = init[thread[v].init_data].P
      BY <1>16, <2>2
    <3> QED BY <3>2, <3>3, <3>4
  <2>5. Beside(v)
    BY <1>2, <1>9, <1>17, <1>20, <2>3, <2>4 DEF Beside
  <2> QED BY <1>0, <1>15, <1>19, <2>5, BesideStep
<1>21. PlacedThread(t)'
  <2>1. /\ ThreadOK(t) /\ Seated(t) /\ Chain(t) /\ Pending(t) /\ Spawning(t) /\ Spawned(t) /\ InLiveRuns(t)
    BY <1>0 DEF Placed, HeapInv
  <2>2. Inside(t)' = Inside(t) /\ Innermost(t)' = Innermost(t)
    BY <1>2 DEF Inside, Innermost
  <2>3. ThreadOK(t)' /\ Joined(t)'
    <3>1. PICK x, L, i : x = thread'[t] /\ L = Inside(t) /\ i = init'[r].prev_data
      OBVIOUS
    <3>2. /\ x.pc = "spawning" /\ x.id = 0 /\ x.run = r /\ x.init_data = r /\ x.thread_data = Innermost(t)
          /\ i = Innermost(t)
          /\ L = <<>> => t = 0
          /\ L # <<>> => Last(L)[1] < r
      BY <1>1, <1>2, <1>7, <1>10, <1>16, <2>1, <3>1 DEF ThreadOK
    <3>3. x.pc \notin {"none", "main", "born", "ready", "joining", "exited"} \cup InRun
      BY <3>2 DEF InRun
    <3>4. ThreadOK(t)'
      BY <1>7, <2>2, <3>1, <3>2, <3>3 DEF ThreadOK
    <3> QED BY <3>1, <3>2, <3>4 DEF Joined
  <2>4. Seated(t)'
    <3>1. init'[r].threads[0] = NoThread /\ Begun(r)' /\ 0 < init'[r].P
      BY <1>7, <1>8, <1>16, <1>18
    <3> QED BY <1>10, <3>1 DEF Seated
  <2>5. Chain(t)'
    <3>1. PICK L : L = Inside(t)
      OBVIOUS
    <3>2. L \in Seq(Runs \X Ids)
      BY <1>0, <3>1, Orders
    <3>3. ASSUME NEW k \in 1 .. Len(L)
          PROVE  /\ Begun(L[k][1])' /\ L[k][2] < init'[L[k][1]].P /\ init'[L[k][1]].threads[L[k][2]] = t
                 /\ init'[L[k][1]].prev_data = init[L[k][1]].prev_data
      <4>1. PICK q, p : q = L[k][1] /\ p = L[k][2]
        OBVIOUS
      <4>2. q \in Runs /\ p \in Ids
        BY <3>2, <3>3, <4>1
      <4>3. Begun(q) /\ p < init[q].P /\ init[q].threads[p] = t
        BY <2>1, <3>1, <3>3, <4>1 DEF Chain
      <4>4. p \in ProcsOf(q)
        BY <1>0, <4>2, <4>3, Constants, RunType DEF Types
      <4>5. init'[q].threads[p] = t
        BY <1>18, <4>2, <4>3, <4>4, NoThreadIsNone
      <4> QED BY <1>16, <4>1, <4>2, <4>3, <4>5
    <3>4. /\ \A k \in 1 .. Len(L) - 1 : k \in 1 .. Len(L) /\ k + 1 \in 1 .. Len(L)
          /\ L # <<>> => 1 \in 1 .. Len(L)
      BY <3>2
    <3>5. L = Inside(t)' /\ Chain(t)
      BY <2>1, <2>2, <3>1
    <3> QED BY <3>1, <3>3, <3>4, <3>5 DEF Chain
  <2>6. Pending(t)'
    <3>1. \A v \in Threads : v # t => thread'[v].init_data # r
      <4>1. \A v \in Threads : v # t => thread[v].init_data # r
        BY <1>7, <2>1 DEF Pending
      <4> QED BY <1>7, <1>9, <1>11, <4>1
    <3> QED BY <1>2, <1>7, <1>10, <2>1, <2>2, <3>1 DEF Pending
  <2>7. Spawning(t)'
    <3>1. s - 1 < init'[r].P /\ init'[r].P = init[r].P
      BY <1>7, <1>8, <1>16
    <3>2. ASSUME NEW p \in ProcsOf(r) PROVE init'[r].threads[p] = NoThread <=> p <= s - 1
      <4>1. p \in Nat
        BY <1>7
      <4>2. CASE p = s
        <5>1. init'[r].threads[p] = u
          BY <1>12, <1>13, <1>14, <4>2
        <5>2. u # NoThread
          BY <1>4, NoThreadIsNone
        <5>3. ~ (p <= s - 1)
          BY ONLY <4>1, <4>2
        <5> QED BY <5>1, <5>2, <5>3
      <4>3. CASE p # s
        <5>1. init'[r].threads[p] = init[r].threads[p]
          BY <1>12, <1>13, <1>14, <4>3
        <5>2. p <= s <=> p <= s - 1
          BY <1>8, <4>1, <4>3
        <5> QED BY <1>7, <5>1, <5>2
      <4> QED BY <4>2, <4>3
    <3> QED BY <1>7, <1>10, <1>16, <3>1, <3>2 DEF Spawning, Run
  <2>8. Spawned(t)'
    <3>1. ASSUME t # 0 PROVE \E q \in Runs : Begun(q)' /\ \E p \in 1 .. init'[q].P - 1 : init'[q].threads[p] = t
      <4>1. PICK q \in Runs : Begun(q) /\ \E p \in 1 .. init[q].P - 1 : init[q].threads[p] = t
        BY <1>2, <2>1, <3>1 DEF Spawned
      <4>2. PICK p \in 1 .. init[q].P - 1 : init[q].threads[p] = t
        BY <4>1
      <4>3. p \in ProcsOf(q)
        BY <1>0, <4>1, RunType DEF Types
      <4>4. init'[q].threads[p] = t
        BY <1>18, <4>1, <4>2, <4>3, NoThreadIsNone
      <4> QED BY <1>16, <4>1, <4>4
    <3> QED BY <3>1 DEF Spawned
  <2>9. InLiveRuns(t)'
    <3>1. PICK L : L = Inside(t)
      OBVIOUS
    <3>2. \A k \in 1 .. Len(L) : L[k] \in Runs \X Ids
      BY <1>0, <3>1, Orders
    <3>3. \A k \in 1 .. Len(L) : Live(L[k][1])
      BY <2>1, <3>1 DEF InLiveRuns
    <3>4. \A k \in 1 .. Len(L) : Live(L[k][1])'
      BY <1>17, <3>2, <3>3
    <3>5. Live(r)' /\ Inside(t)' = L
      BY <1>7, <1>17, <2>2, <3>1
    <3> QED BY <1>10, <3>4, <3>5 DEF InLiveRuns
  <2> QED BY <2>3, <2>4, <2>5, <2>6, <2>7, <2>8, <2>9 DEF PlacedThread
<1>22. PlacedThread(u)'
  <2>1. Inside(u)' = <<>>
    BY <1>2, <1>5 DEF Inside
  <2>2. ThreadOK(u)'
    BY <1>5, <1>7, <1>8, <1>11, <2>1 DEF ThreadOK, InRun
  <2>3. init'[r].threads[s] = u /\ Begun(r)' /\ s < init'[r].P /\ s \in 1 .. init'[r].P - 1
    BY <1>7, <1>8, <1>12, <1>13, <1>14, <1>16
  <2>4. Seated(u)' /\ Spawned(u)'
    BY <1>7, <1>11, <2>3 DEF Seated, Spawned
  <2>5. Chain(u)' /\ Pending(u)' /\ Spawning(u)' /\ Joined(u)'
    BY <1>11, <2>1 DEF Chain, Pending, Spawning, Joined
  <2>6. InLiveRuns(u)'
    BY <1>7, <1>11, <1>17, <2>1 DEF InLiveRuns
  <2> QED BY <2>2, <2>4, <2>5, <2>6 DEF PlacedThread
<1>23. \A v \in Threads : PlacedThread(v)'
  BY <1>20, <1>21, <1>22
<1>24. Placed'
  BY <1>0, <1>15, <1>16, <1>19, <1>23, PlacedNext
<1>25. ASSUME NEW q \in Runs, NEW p \in ProcsOf(q), Begun(q), q # r \/ p # s PROVE Stage(q, p)' = Stage(q, p)
  <2>1. PICK w : w = init[q].threads[p]
    OBVIOUS
  <2>2. (w # NoThread => w \in Threads) /\ init'[q].threads[p] = w
    BY <1>0, <1>18, <1>25, <2>1, SeatOf
  <2>3. CASE w = t
    <3>1. /\ thread'[t].run = thread[t].run /\ thread'[t].id = thread[t].id /\ thread'[t].pc = thread[t].pc
          /\ thread'[t].on = thread[t].on /\ thread'[t].then = thread[t].then
      BY <1>6, <1>9 DEF Records
    <3> QED BY <2>1, <2>2, <2>3, <3>1, StageSame
  <2>4. CASE w = u
    <3>1. thread[u].run # q /\ (thread'[u].run # q \/ thread'[u].id # p)
      BY <1>5, <1>11, <1>25, Constants
    <3> QED BY <2>1, <2>2, <2>4, <3>1, StageSame
  <2>5. CASE w # t /\ w # u
    <3>1. w # NoThread => thread'[w] = thread[w]
      BY <1>9, <2>2, <2>5
    <3> QED BY <2>1, <2>2, <3>1, StageSame
  <2> QED BY <2>3, <2>4, <2>5
<1>26. ASSUME NEW q \in Runs, q # r PROVE RunSound(q)'
  <2>1. /\ \A o \in heap : o[2] = q => o \in heap'
        /\ \A o \in heap' : o[2] = q => o \in heap
    BY <1>2, <1>26, StructuresDiffer
  <2>2. Aside(q, 0)
    BY <1>2, <1>14, <1>25, <1>26, <2>1 DEF Aside
  <2> QED BY <1>0, <1>15, <1>19, <1>24, <2>2, AsideStep
<1>27. Stage(r, s)' = "born" /\ \A p \in ProcsOf(r) : p # s => Stage(r, p)' = Stage(r, p)
  <2>1. Stage(r, s)' = "born"
    <3>1. init'[r].threads[s] = u
      BY <1>12, <1>13, <1>14
    <3> QED BY <1>4, <1>11, <3>1, NoThreadIsNone DEF Stage, StageOf
  <2> QED BY <1>7, <1>25, <2>1
<1>28. RunSound(r)'
  <2>1. RunOK(r)'
    BY <1>7, <1>24 DEF Placed
  <2>2. HeapOfRun(r)'
    <3>1. ASSUME NEW p \in ProcsOf(r), p # s PROVE HeapOfSeat(r, p)'
      <4>1. HeapOfSeat(r, p)
        BY <1>7, <3>1 DEF HeapOf
      <4>2. /\ Descriptor(r, p) \in heap' <=> Descriptor(r, p) \in heap
            /\ ThreadData(r, p) \in heap' <=> ThreadData(r, p) \in heap
            /\ Queues(r, p) \in heap' <=> Queues(r, p) \in heap
        BY <1>2, <3>1, StructuresDiffer
      <4>3. Stage(r, p)' = Stage(r, p) /\ init'[r].abort = init[r].abort
        BY <1>7, <1>16, <1>27, <3>1
      <4> QED BY <4>1, <4>2, <4>3 DEF HeapOfSeat, Descriptor, ThreadData, Queues
    <3>2. HeapOfSeat(r, s)'
      <4>1. ThreadData(r, s) \notin heap /\ Queues(r, s) \notin heap
        BY <1>7, <1>8 DEF HeapOf, HeapOfSeat
      <4>2. Descriptor(r, s) \in heap' /\ ThreadData(r, s) \notin heap' /\ Queues(r, s) \notin heap'
        BY <1>2, <4>1, StructuresDiffer
      <4> QED BY <1>27, <4>2 DEF HeapOfSeat, Descriptor, ThreadData, Queues
    <3>3. SharedArrays(r) \in heap'
      BY <1>2, <1>7 DEF HeapOf
    <3>4. ASSUME NEW p \in Ids \ ProcsOf(r)
          PROVE  {Descriptor(r, p), ThreadData(r, p), Queues(r, p)} \cap heap' = {}
      <4>1. {Descriptor(r, p), ThreadData(r, p), Queues(r, p)} \cap heap = {} /\ p # s
        BY <1>7, <1>8, <3>4 DEF HeapOf
      <4> QED BY <1>2, <4>1, StructuresDiffer
    <3>5. HeapOf(r)'
      BY <1>7, <1>16, <3>1, <3>2, <3>3, <3>4 DEF HeapOf, SharedArrays, Descriptor, ThreadData, Queues
    <3> QED BY <1>7, <1>16, <1>17, <3>5 DEF HeapOfRun
  <2>3. Linked(r)'
    <3>1. Linked(r)
      BY <1>0, <1>7 DEF RunSound
    <3>2. \A p \in ProcsOf(r) : p \in init'[r].threadData <=> Stage(r, p)' \notin {"unborn", "born", "ready"}
      BY <1>7, <1>8, <1>13, <1>14, <1>27, <3>1 DEF Linked
    <3> QED BY <1>7, <1>16, <3>2 DEF Linked
  <2>4. SameData(init[r], init'[r])
    BY <1>13, <1>14
  <2>5. DataOf(r)'
    <3>1. DataOf(r) /\ Stage(r, 0) \notin DueStages \cup {"exited"}
      BY <1>0, <1>7 DEF RunSound, DueStages
    <3> QED BY <1>0, <1>2, <1>7, <1>16, <1>17, <2>4, <3>1, OwnData
  <2>6. Accounted(r)'
    <3>1. Accounted(r) /\ Stage(r, s) \in Early /\ Stage(r, s)' \in Early
      BY <1>0, <1>7, <1>8, <1>27 DEF RunSound, Early
    <3> QED
      BY <1>0, <1>2, <1>7, <1>8, <1>13, <1>14, <1>15, <1>24, <1>27, <2>4, <3>1, StartingAccount
  <2> QED BY <2>1, <2>2, <2>3, <2>5, <2>6 DEF RunSound
<1> QED BY <1>15, <1>23, <1>26, <1>28, TogetherNext

----
(* The invariant holds at the start. *)
LEMMA InitHolds == Init => LifeIInv
<1> SUFFICES ASSUME Init PROVE LifeIInv
  OBVIOUS
<1>1. /\ hp \in BOOLEAN /\ heap = {} /\ init = [r \in Runs |-> [P |-> 0]] /\ failing = FALSE /\ fatal = FALSE
      /\ thread = [t \in Threads |->
           [pc |-> IF t = 0 THEN "main" ELSE "none", run |-> NoRun, id |-> 0, count |-> 0,
            on |-> "sl_condition", then |-> "user", init_data |-> NoRun, thread_data |-> NoData]]
      /\ \E file \in MachineFiles : machine = [t \in Threads |-> file]
  BY DEF Init
<1>2. PICK bound \in Bounds :
        history = [bound |-> bound, begun |-> 0, settings |-> 0, lost |-> {},
                   inside |-> [t \in Threads |-> <<>>],
                   syncs |-> [r \in Runs |-> [s \in Ids |-> 0]],
                   manual |-> [r \in Runs |-> [s \in Ids |-> FALSE]],
                   since |-> [r \in Runs |-> [syncs |-> 0, failing |-> 0, touched |-> FALSE]]]
  BY DEF Init
<1>3. \A r \in Runs : init[r] = [P |-> 0] /\ ~ Begun(r) /\ ~ Live(r)
  BY <1>1 DEF Begun, Live
<1>4. \A t \in Threads :
        /\ thread[t].pc = (IF t = 0 THEN "main" ELSE "none") /\ thread[t].run = NoRun /\ thread[t].id = 0
        /\ thread[t].init_data = NoRun /\ thread[t].thread_data = NoData /\ Inside(t) = <<>>
  BY <1>1, <1>2 DEF Inside
<1>5. /\ history.begun = 0
      /\ \A r \in Runs : /\ history.since[r] = [syncs |-> 0, failing |-> 0, touched |-> FALSE]
                         /\ \A s \in Ids : history.syncs[r][s] = 0 /\ ~ history.manual[r][s]
  BY <1>2
<1>6. Types
  <2>1. 0 \in Ids
    BY BoundsAssumption DEF Ids
  <2>2. ThreadType
    <3>1. \A t \in Threads :
            [pc |-> IF t = 0 THEN "main" ELSE "none", run |-> NoRun, id |-> 0, count |-> 0,
             on |-> "sl_condition", then |-> "user", init_data |-> NoRun, thread_data |-> NoData] \in Records
      BY <2>1 DEF Records, PCs, Arrays, Targets, Seats
    <3> QED BY <1>1, <3>1 DEF ThreadType
  <2>3. MachineType
    BY <1>1, FrequencyAssumption DEF MachineType
  <2>4. HistoryType
    <3>1. bound \in [processes : 1 .. MaxP, runs : 1 .. MaxRuns, settings : Nat]
      BY BoundsAssumption
    <3>2. 0 \in 0 .. MaxRuns
      BY BoundsAssumption
    <3>3. /\ [t \in Threads |-> <<>>] \in [Threads -> Seq(Runs \X Ids)]
          /\ [r \in Runs |-> [s \in Ids |-> 0]] \in [Runs -> [Ids -> Nat]]
          /\ [r \in Runs |-> [s \in Ids |-> FALSE]] \in [Runs -> [Ids -> BOOLEAN]]
          /\ [r \in Runs |-> [syncs |-> 0, failing |-> 0, touched |-> FALSE]]
               \in [Runs -> [syncs : Nat, failing : Nat, touched : BOOLEAN]]
          /\ {} \in SUBSET Runs /\ 0 \in Nat
      OBVIOUS
    <3> QED BY <1>2, <3>1, <3>2, <3>3 DEF HistoryType, Histories
  <2>5. InitType
    BY <1>1, <1>3 DEF InitType
  <2>6. HeapType
    BY <1>1 DEF HeapType
  <2> QED BY <1>1, <2>2, <2>3, <2>4, <2>5, <2>6 DEF Types
<1>7. Placed
  <2>1. ASSUME NEW t \in Threads PROVE ThreadOK(t) /\ Seated(t) /\ Chain(t) /\ Pending(t) /\ Spawning(t) /\ Spawned(t)
    <3>1. /\ thread[t].pc = (IF t = 0 THEN "main" ELSE "none") /\ thread[t].run = NoRun /\ thread[t].id = 0
          /\ thread[t].init_data = NoRun /\ thread[t].thread_data = NoData /\ Inside(t) = <<>>
      BY <1>4
    <3>2. ThreadOK(t)
      BY <3>1 DEF ThreadOK, InRun
    <3>3. Chain(t)
      BY <3>1 DEF Chain
    <3>4. Seated(t) /\ Pending(t) /\ Spawning(t) /\ Spawned(t)
      BY <3>1 DEF Seated, Pending, Spawning, Spawned
    <3> QED BY <3>2, <3>3, <3>4
  <2> QED BY <1>3, <2>1 DEF Placed, RunOK
<1>8. HeapInv
  BY <1>1, <1>3, <1>4 DEF HeapInv, HeapOfRun, InLiveRuns
<1>9. LinkedInv
  BY <1>3, <1>4 DEF LinkedInv, Linked, Joined
<1>10. DataInv
  <2>1. ASSUME NEW r \in Runs PROVE DataOf(r)
    <3>1. ~ Begun(r)
      BY <1>3
    <3> QED BY <1>5, <3>1 DEF DataOf
  <2> QED BY <2>1 DEF DataInv
<1>11. Synchronised
  BY <1>3 DEF Synchronised
<1> QED BY <1>6, <1>7, <1>8, <1>9, <1>10, <1>11 DEF LifeIInv

(* Every step keeps it. *)
LEMMA NextHolds == LifeIInv /\ [Next]_vars => LifeIInv'
<1> SUFFICES ASSUME LifeIInv, [Next]_vars PROVE LifeIInv'
  OBVIOUS
<1>1. ASSUME NEW t \in Threads, Library(t) PROVE LifeIInv'
  <2>1. CASE Spawn(t)
    BY <2>1, SpawnStep
  <2>2. CASE StartMaster(t)
    BY <2>2, StartMasterStep
  <2>3. CASE InitializeThreadData(t)
    BY <2>3, InitializeThreadDataStep
  <2>4. CASE LinkThreadData(t)
    BY <2>4, LinkThreadDataStep
  <2>5. CASE BeginSibling(t)
    BY <2>5, BeginSiblingStep
  <2>6. CASE LeaveBarrier(t)
    BY <2>6, LeaveBarrierStep
  <2>7. CASE ExitAborted(t)
    BY <2>7, ExitAbortedStep
  <2>8. CASE MismatchedEnd(t)
    BY <2>8, MismatchedEndStep
  <2>9. CASE Exchange(t)
    BY <2>9, ExchangeStep
  <2>10. CASE Deliver(t)
    BY <2>10, DeliverStep
  <2>11. CASE StartCheckpoint(t)
    BY <2>11, StartCheckpointStep
  <2>12. CASE AwaitCheckpoint(t)
    BY <2>12, AwaitCheckpointStep
  <2>13. CASE CheckpointDone(t)
    BY <2>13, CheckpointDoneStep
  <2>14. CASE CheckpointFails(t)
    BY <2>14, AbortStep
  <2>15. CASE Profile(t)
    BY <2>15, ProfileStep
  <2>16. CASE DestroyThreadData(t)
    BY <2>16, DestroyThreadDataStep
  <2>17. CASE Join(t)
    BY <2>17, JoinStep
  <2>18. CASE Finish(t)
    BY <2>18, FinishStep
  <2> QED
    BY <1>1, <2>1, <2>2, <2>3, <2>4, <2>5, <2>6, <2>7, <2>8, <2>9, <2>10, <2>11, <2>12, <2>13,
       <2>14, <2>15, <2>16, <2>17, <2>18 DEF Library
<1>2. ASSUME NEW t \in Threads, Program(t) PROVE LifeIInv'
  <2>1. CASE BspInit(t)
    BY <2>1, BspInitStep
  <2>2. CASE Begin(t)
    BY <2>2, BeginStep
  <2>3. CASE Sync(t)
    BY <2>3, SyncStep
  <2>4. CASE BspCheckpoint(t)
    BY <2>4, BspCheckpointStep
  <2>5. CASE End(t)
    BY <2>5, EndStep
  <2>6. CASE Abort(t)
    BY <2>6, AbortStep
  <2>7. CASE SetFrequency(t)
    BY <2>7, SetFrequencyStep
  <2>8. CASE SwitchCheckpoints(t)
    BY <2>8, SwitchCheckpointsStep
  <2>9. CASE Return(t)
    BY <2>9, ReturnStep
  <2> QED BY <1>2, <2>1, <2>2, <2>3, <2>4, <2>5, <2>6, <2>7, <2>8, <2>9 DEF Program
<1>3. CASE Daemon
  BY <1>3, DaemonStep
<1>4. CASE UNCHANGED vars
  BY <1>4, StutterStep
<1>5. CASE Finished
  BY <1>4, <1>5 DEF Finished
<1> QED BY <1>1, <1>2, <1>3, <1>4, <1>5 DEF Next

(* It always holds. *)
LEMMA InvariantHolds == Spec => []LifeIInv
<1> QED BY InitHolds, NextHolds, PTL DEF Spec

----
(* Where a process reads the data of others nobody has aborted the run. *)
LEMMA NotAborted ==
  ASSUME LifeIInv, NEW t \in Threads,
         thread[t].pc \in {"synced", "delivering", "checkpointing", "ended", "leaving", "joining"},
         NEW r, NEW s, r = thread[t].run, s = thread[t].id
  PROVE  /\ r \in Runs /\ s \in ProcsOf(r) /\ Live(r) /\ ~ init[r].abort /\ thread[t].pc = Stage(r, s)
         /\ View(r) \in [ProcsOf(r) -> Views]
         /\ \A q \in ProcsOf(r) : View(r)[q] = SeatView(r, q)
         /\ \E b \in Bases : Account(View(r), ProcsOf(r), b, hp, init[r].ended, Due(init[r]), ManualAt[r])
<1>1. /\ r \in Runs /\ Begun(r) /\ Live(r) /\ s \in ProcsOf(r) /\ Stage(r, s) = StageOf(thread[t])
  BY InRunFacts DEF InRun
<1>2. Stage(r, s) = thread[t].pc
  BY <1>1 DEF StageOf
<1>3. ~ init[r].abort
  <2>1. ~ Aborted(r)
    BY <1>1, <1>2 DEF Aborted
  <2> QED BY <1>1, <2>1 DEF LifeIInv, Synchronised
<1>4. InStep(r)
  BY <1>1, <1>3 DEF LifeIInv, Synchronised
<1>5. View(r) \in [ProcsOf(r) -> Views] /\ \A q \in ProcsOf(r) : View(r)[q] = SeatView(r, q)
  BY <1>1, ViewType DEF LifeIInv
<1> QED BY <1>1, <1>2, <1>3, <1>4, <1>5 DEF InStep

(* What is read of all is there, and all have made it known. *)
LEMMA AllAreThere ==
  ASSUME LifeIInv, NEW t \in Threads, thread[t].pc \in {"synced", "delivering", "ended"},
         NEW r, r = thread[t].run
  PROVE  /\ Everyones(r) \subseteq heap
         /\ init[r].threadData = ProcsOf(r)
<1>1. PICK s : s = thread[t].id
  OBVIOUS
<1>2. /\ r \in Runs /\ s \in ProcsOf(r) /\ Live(r) /\ thread[t].pc = Stage(r, s)
      /\ View(r) \in [ProcsOf(r) -> Views]
      /\ \A q \in ProcsOf(r) : View(r)[q] = SeatView(r, q)
      /\ \E b \in Bases : Account(View(r), ProcsOf(r), b, hp, init[r].ended, Due(init[r]), ManualAt[r])
  BY <1>1, NotAborted
<1>3. PICK b \in Bases : Account(View(r), ProcsOf(r), b, hp, init[r].ended, Due(init[r]), ManualAt[r])
  BY <1>2
<1>4. \A q \in ProcsOf(r) : View(r)[q].at = Stage(r, q)
  <2>1. \A q : SeatView(r, q).at = Stage(r, q)
    BY DEF SeatView
  <2> QED BY <1>2, <2>1
<1>5. View(r)[s].at \in {"synced", "delivering", "ended"}
  BY <1>2, <1>4
<1>6. \A q \in ProcsOf(r) : View(r)[q].at \notin Early \cup {"joining", "exited"}
  BY ONLY <1>2, <1>3, <1>5, BehindFirstAllAreThere
<1>7. \A q \in ProcsOf(r) : Stage(r, q) \notin {"unborn", "born", "ready", "joining", "exited"}
  BY <1>4, <1>6 DEF Early
<1>8. HeapOf(r)
  BY <1>2 DEF LifeIInv, HeapInv, HeapOfRun
<1>9. \A q \in ProcsOf(r) : ThreadData(r, q) \in heap /\ Queues(r, q) \in heap
  BY <1>7, <1>8 DEF HeapOf, HeapOfSeat
<1>10. Everyones(r) \subseteq heap
  BY <1>9 DEF Everyones
<1>11. \A q \in ProcsOf(r) : q \in init[r].threadData
  BY <1>2, <1>7 DEF LifeIInv, LinkedInv, Linked
<1>12. init[r].threadData \subseteq ProcsOf(r)
  <2>1. Begun(r) /\ Types
    BY <1>2 DEF Live, LifeIInv
  <2>2. init[r] \in RunOf(init[r].P) /\ ProcsOf(r) = 0 .. init[r].P - 1
    BY <1>2, <2>1, RunType DEF Types
  <2> QED BY <2>2, RunFields
<1> QED BY <1>10, <1>11, <1>12

(* A thread that spawns the others is in a run that is there. *)
LEMMA SharedAreThere ==
  ASSUME LifeIInv, NEW t \in Threads, thread[t].pc \notin {"none", "main", "exited"},
         NEW r, r = thread[t].run
  PROVE  /\ r \in Runs /\ r # NoRun /\ Live(r) /\ HeapOf(r) /\ thread[t].id \in ProcsOf(r)
         /\ InitData(r) \in heap /\ SharedArrays(r) \in heap
<1>1. r # NoRun /\ Seated(t) /\ InLiveRuns(t)
  BY DEF LifeIInv, Placed, ThreadOK, HeapInv
<1>2. r \in Runs /\ thread[t].id \in ProcsOf(r)
  BY <1>1, SeatType DEF LifeIInv
<1>3. Live(r)
  BY <1>1 DEF InLiveRuns
<1>4. HeapOf(r)
  BY <1>2, <1>3 DEF LifeIInv, HeapInv, HeapOfRun
<1> QED BY <1>1, <1>2, <1>3, <1>4 DEF Live, HeapOf

(* The invariant implies that only live data is touched. *)
LEMMA TouchedIsLive == LifeIInv => OnlyLiveDataIsTouched
<1> SUFFICES ASSUME LifeIInv, NEW t \in Threads
             PROVE  /\ Touches(t) \subseteq heap
                    /\ thread[t].pc \in {"synced", "delivering", "ended"} => Run(t).threadData = ProcsOf(thread[t].run)
  BY DEF OnlyLiveDataIsTouched
<1>1. PICK r, s : r = thread[t].run /\ s = thread[t].id
  OBVIOUS
<1>2. thread[t].pc \in {"synced", "delivering", "ended"} => Run(t).threadData = ProcsOf(thread[t].run)
  BY AllAreThere DEF Run
<1>3. CASE thread[t].pc \in {"none", "main", "exited"}
  BY <1>2, <1>3 DEF Touches
<1>4. CASE thread[t].pc \notin {"none", "main", "exited"}
  <2>1. /\ r \in Runs /\ r # NoRun /\ HeapOf(r) /\ s \in ProcsOf(r)
        /\ InitData(r) \in heap /\ SharedArrays(r) \in heap
    BY <1>1, <1>4, SharedAreThere
  <2>2. CASE thread[t].pc \in {"spawning", "joining"}
    BY <1>1, <1>2, <2>1, <2>2 DEF Touches
  <2>3. CASE thread[t].pc \in {"synced", "delivering", "ended"}
    <3>1. Everyones(r) \subseteq heap
      BY <1>1, <2>3, AllAreThere
    <3> QED BY <1>1, <1>2, <2>1, <2>3, <3>1 DEF Touches
  <2>4. CASE thread[t].pc = "born"
    <3>1. Stage(r, s) = "born"
      BY <1>1, <2>1, <2>4, OwnStage DEF LifeIInv, StageOf
    <3>2. Descriptor(r, s) \in heap
      BY <2>1, <3>1 DEF HeapOf, HeapOfSeat
    <3> QED BY <1>1, <1>2, <2>1, <2>4, <3>2 DEF Touches
  <2>5. CASE thread[t].pc \notin {"spawning", "joining", "synced", "delivering", "ended", "born"}
    <3>1. thread[t] \in Records
      BY DEF LifeIInv, Types, ThreadType
    <3>2. Stage(r, s) = StageOf(thread[t])
      BY <1>1, <2>1, <2>5, OwnStage DEF LifeIInv
    <3>3. thread[t].pc = "ready" \/ thread[t].pc \in InRun
      BY <1>4, <2>5, <3>1, ThreadFields DEF PCs, InRun
    <3>4. Stage(r, s) \notin {"unborn", "born", "joining", "exited"}
      <4>1. CASE thread[t].pc = "ready"
        BY <3>2, <4>1 DEF StageOf
      <4>2. CASE thread[t].pc \in InRun
        BY <3>1, <3>2, <4>2, InRunStage DEF Outside
      <4> QED BY <3>3, <4>1, <4>2
    <3>5. ThreadData(r, s) \in heap /\ Queues(r, s) \in heap
      BY <2>1, <3>4 DEF HeapOf, HeapOfSeat
    <3> QED BY <1>1, <1>2, <1>4, <2>1, <2>5, <3>5 DEF Touches
  <2> QED BY <2>2, <2>3, <2>4, <2>5
<1> QED BY <1>3, <1>4

(* It implies that runs leave no trace. *)
LEMMA NoTraceIsLeft == LifeIInv => RunsLeaveNoTrace
<1> SUFFICES ASSUME LifeIInv PROVE RunsLeaveNoTrace
  OBVIOUS
<1>1. \A r \in Runs : init[r].P > 0 /\ InitData(r) \notin heap => \A o \in heap : o[2] # r
  BY DEF LifeIInv, HeapInv, HeapOfRun, Live, Begun
<1>2. ASSUME NEW t \in Threads
      PROVE  /\ thread[t].pc = "user" => thread[t].thread_data = Last(history.inside[t])
             /\ thread[t].pc = "main" => history.inside[t] = <<>> /\ thread[t].thread_data = NoData
  BY DEF LifeIInv, Placed, ThreadOK, InRun, Inside
<1> QED BY <1>1, <1>2 DEF RunsLeaveNoTrace

(* It implies the types. *)
LEMMA TypesHold == LifeIInv => TypeOK
<1> SUFFICES ASSUME LifeIInv PROVE TypeOK
  OBVIOUS
<1>1. \A t \in Threads : thread[t] \in Records
  BY DEF LifeIInv, Types, ThreadType
<1>2. \A r \in Runs : init[r].P \in 0 .. MaxP
  BY BoundsAssumption DEF LifeIInv, Types, InitType
<1>3. \A t \in Threads :
        /\ thread[t].run \in Runs \cup {NoRun} /\ thread[t].init_data \in Runs \cup {NoRun}
        /\ thread[t].thread_data \in (Runs \X Ids) \cup {NoData}
  BY <1>1, ThreadFields DEF Seats
<1>4. hp \in BOOLEAN /\ failing \in BOOLEAN /\ fatal \in BOOLEAN
  BY DEF LifeIInv, Types
<1>5. HeapType
  BY DEF LifeIInv, Types
<1>6. TypeOK <=>
        /\ hp \in BOOLEAN /\ failing \in BOOLEAN /\ fatal \in BOOLEAN
        /\ \A t \in Threads :
             /\ thread[t].run \in Runs \cup {NoRun}
             /\ thread[t].init_data \in Runs \cup {NoRun}
             /\ thread[t].thread_data \in (Runs \X Ids) \cup {NoData}
        /\ \A r \in Runs : init[r].P \in 0 .. MaxP
        /\ HeapType
  BY DEF TypeOK, HeapType
<1> QED BY ONLY <1>2, <1>3, <1>4, <1>5, <1>6

(* Threads read each other's data without a lock and free their own, and
   runs nest and abort: no step touches what is not there (bsp.c:344-420,
   mcbsp.c:458-474), and when a run is over nothing is left of it. *)
THEOREM LifecycleHolds == Spec => []LifecycleInv
<1>1. LifeIInv => LifecycleInv
  BY TouchedIsLive, NoTraceIsLeft, TypesHold DEF LifecycleInv
<1> QED BY <1>1, InvariantHolds, PTL

(* Where a thread is, its view says. *)
LEMMA ViewSays ==
  ASSUME NEW r, NEW q
  PROVE  /\ SeatView(r, q).at = Stage(r, q) /\ SeatView(r, q).y = history.syncs[r][q]
         /\ SeatView(r, q).A = init[r].arrived["sl_condition"][q]
         /\ SeatView(r, q).E = init[r].arrived["sl_end_condition"][q]
BY DEF SeatView

(* What a fatal error says. *)
Accused == fatal => \E r \in Runs : \E s, q \in ProcsOf(r) : history.syncs[r][s] # history.syncs[r][q]

(* A process which finds that another is in bsp_end is not accused wrongly. *)
LEMMA AccusedRightly ==
  ASSUME LifeIInv, NEW t \in Threads, thread[t].pc = "synced", Run(t).ended = TRUE
  PROVE  \E r \in Runs : \E s, q \in ProcsOf(r) : history.syncs[r][s] # history.syncs[r][q]
<1>1. PICK r, s : r = thread[t].run /\ s = thread[t].id
  OBVIOUS
<1>2. /\ r \in Runs /\ s \in ProcsOf(r) /\ thread[t].pc = Stage(r, s)
      /\ View(r) \in [ProcsOf(r) -> Views]
      /\ \A q \in ProcsOf(r) : View(r)[q] = SeatView(r, q)
      /\ \E b \in Bases : Account(View(r), ProcsOf(r), b, hp, init[r].ended, Due(init[r]), ManualAt[r])
  BY <1>1, NotAborted
<1>3. PICK b \in Bases : Account(View(r), ProcsOf(r), b, hp, init[r].ended, Due(init[r]), ManualAt[r])
  BY <1>2
<1>4. \E q \in ProcsOf(r) : View(r)[q].y # View(r)[s].y
  <2>1. View(r)[s].at = "synced"
    BY <1>2, ViewSays
  <2>2. init[r].ended = TRUE
    BY <1>1 DEF Run
  <2>3. Account(View(r), ProcsOf(r), b, hp, TRUE, Due(init[r]), ManualAt[r])
    BY <1>3, <2>2
  <2> QED BY ONLY <1>2, <1>3, <2>1, <2>3, MismatchSeen
<1>5. \A q \in ProcsOf(r) : View(r)[q].y = history.syncs[r][q]
  BY <1>2, ViewSays
<1> QED BY <1>2, <1>4, <1>5

(* The processes that leave bsp_end agree. *)
LEMMA LeaversAgree ==
  ASSUME LifeIInv, NEW t \in Threads, thread[t].pc \in {"leaving", "joining"},
         NEW r, NEW s, r = thread[t].run, s = thread[t].id, NEW q \in ProcsOf(r)
  PROVE  history.syncs[r][q] = history.syncs[r][s]
<1>2. /\ r \in Runs /\ s \in ProcsOf(r) /\ thread[t].pc = Stage(r, s)
      /\ View(r) \in [ProcsOf(r) -> Views]
      /\ \A p \in ProcsOf(r) : View(r)[p] = SeatView(r, p)
      /\ \E b \in Bases : Account(View(r), ProcsOf(r), b, hp, init[r].ended, Due(init[r]), ManualAt[r])
  BY NotAborted
<1>3. PICK b \in Bases : Account(View(r), ProcsOf(r), b, hp, init[r].ended, Due(init[r]), ManualAt[r])
  BY <1>2
<1>4. \A p \in ProcsOf(r) : View(r)[p].y = View(r)[s].y
  <2>1. View(r)[s].at \in Left
    BY <1>2, ViewSays DEF Left
  <2> QED BY ONLY <1>2, <1>3, <2>1, LeftAgree
<1>5. \A p \in ProcsOf(r) : View(r)[p].y = history.syncs[r][p]
  BY <1>2, ViewSays
<1> QED BY <1>2, <1>4, <1>5

(* Nobody is accused later than that: a fatal error is the last step. *)
LEMMA AccusedNext == LifeIInv /\ Accused /\ [Next]_vars => Accused'
<1> SUFFICES ASSUME LifeIInv, Accused, [Next]_vars PROVE Accused'
  OBVIOUS
<1>1. CASE UNCHANGED vars
  BY <1>1 DEF vars, Accused, ProcsOf
<1>2. ASSUME NEW t \in Threads, MismatchedEnd(t) PROVE Accused'
  <2>0. thread[t].pc = "synced" /\ Run(t).ended = TRUE
    <3>1. thread[t].pc = "synced" /\ Run(t).ended
      BY <1>2 DEF MismatchedEnd
    <3>2. init[thread[t].run] \in RunOf(init[thread[t].run].P)
      BY <3>1, InRunFacts DEF InRun
    <3>3. Run(t).ended \in BOOLEAN
      BY <3>2, RunFields DEF Run
    <3> QED BY ONLY <3>1, <3>3, Zenon
  <2>1. PICK r \in Runs : \E s, q \in ProcsOf(r) : history.syncs[r][s] # history.syncs[r][q]
    BY <2>0, AccusedRightly
  <2>2. init' = init /\ history' = history
    BY <1>2 DEF MismatchedEnd
  <2> QED BY <2>1, <2>2 DEF Accused, ProcsOf
<1>3. ASSUME ~ fatal, NEW t \in Threads, Library(t) \/ Program(t), ~ MismatchedEnd(t) PROVE fatal' = fatal
  BY <1>3 DEF Library, Program, Spawn, StartMaster, InitializeThreadData, LinkThreadData, BeginSibling,
     LeaveBarrier, ExitAborted, Exchange, Deliver, StartCheckpoint, AwaitCheckpoint, CheckpointDone,
     CheckpointFails, Profile, DestroyThreadData, Join, Finish, BspInit, Begin, Sync, BspCheckpoint, End,
     Abort, SetFrequency, SwitchCheckpoints, Setting, Return
<1>4. Daemon => fatal' = fatal
  BY DEF Daemon
<1> QED BY <1>1, <1>2, <1>3, <1>4 DEF Next, Finished, Accused

(* The flag read without a lock (bsp.c:649) accuses nobody wrongly, and
   who gets through bsp_end has called bsp_sync as often as the others. *)
THEOREM MismatchHolds == Spec => []MismatchIsReported
<1>1. Init => Accused
  BY DEF Init, Accused
<1>2. LifeIInv /\ Accused => MismatchIsReported
  BY LeaversAgree DEF MismatchIsReported, Accused
<1> QED BY <1>1, <1>2, AccusedNext, InitHolds, NextHolds, PTL DEF Spec

(* The others are at rest while process 0 has a checkpoint made. *)
LEMMA OthersAtRest ==
  ASSUME LifeIInv, NEW t \in Threads, NEW u \in Threads, thread[t].pc = "checkpointing", u # t,
         thread[u].run = thread[t].run
  PROVE  \/ thread[u].pc \in {"due", "manual"}
         \/ thread[u].pc = "wait" /\ thread[u].then \in {"due", "manual"} /\ Open(u)
         \/ thread[u].pc = "wait" /\ thread[u].on = "sl_end_condition" /\ ~ Open(u)
<1>1. PICK r, s, q : r = thread[t].run /\ s = thread[t].id /\ q = thread[u].id
  OBVIOUS
<1>2. /\ r \in Runs /\ s \in ProcsOf(r) /\ Live(r) /\ ~ init[r].abort /\ Stage(r, s) = "checkpointing"
      /\ View(r) \in [ProcsOf(r) -> Views]
      /\ \A p \in ProcsOf(r) : View(r)[p] = SeatView(r, p)
      /\ \E b \in Bases : Account(View(r), ProcsOf(r), b, hp, init[r].ended, Due(init[r]), ManualAt[r])
  BY <1>1, NotAborted
<1>3. PICK b \in Bases : Account(View(r), ProcsOf(r), b, hp, init[r].ended, Due(init[r]), ManualAt[r])
  BY <1>2
<1>4. s = 0 /\ r # NoRun /\ init[r].threads[0] = t
  <2>1. ThreadOK(t) /\ Seated(t)
    BY DEF LifeIInv, Placed
  <2> QED BY <1>1, <1>2, <2>1, Constants DEF ThreadOK, LocalOK, InRun, Seated
<1>5. /\ q \in ProcsOf(r) /\ thread[u].pc # "spawning" /\ q # 0
      /\ Stage(r, q) = StageOf(thread[u]) /\ thread[u] \in Records
  <2>1. ThreadOK(u) /\ Seated(u) /\ thread[u] \in Records
    BY DEF LifeIInv, Placed, Types, ThreadType
  <2>2. q \in ProcsOf(r)
    BY <1>1, <1>4, <2>1, SeatType DEF LifeIInv
  <2>3. init[r].threads[q] = IF thread[u].pc = "spawning" THEN NoThread ELSE u
    BY <1>1, <1>4, <2>1 DEF Seated
  <2>4. thread[u].pc # "spawning"
    BY <1>1, <1>4, <2>1, <2>3, NoThreadIsNone DEF ThreadOK
  <2>5. Stage(r, q) = StageOf(thread[u])
    BY <1>1, <1>4, <2>4, OwnStage DEF LifeIInv
  <2> QED BY <1>4, <2>1, <2>2, <2>3, <2>4, <2>5
<1>6. View(r)[s].at = "checkpointing"
  BY <1>2, ViewSays
<1>7. /\ View(r)[s].E = b.E
      /\ \A p \in ProcsOf(r) :
           /\ View(r)[p].at \in {"to_due", "due", "to_manual", "manual", "checkpointing", "to_user"}
           /\ View(r)[p].at \in {"to_due", "to_manual"} => \A w \in ProcsOf(r) : View(r)[w].A >= View(r)[p].A
           /\ View(r)[p].at = "to_user" => View(r)[p].E = b.E + 1
  BY ONLY <1>2, <1>3, <1>6, CheckpointingMeansAllWait
<1>8. /\ Stage(r, q) \in {"to_due", "due", "to_manual", "manual", "checkpointing", "to_user"}
      /\ Stage(r, q) \in {"to_due", "to_manual"} =>
           \A w \in ProcsOf(r) : init[r].arrived["sl_condition"][w] >= init[r].arrived["sl_condition"][q]
      /\ Stage(r, q) = "to_user" =>
           /\ init[r].arrived["sl_end_condition"][q] = b.E + 1
           /\ init[r].arrived["sl_end_condition"][s] = b.E
  <2>1. \A p \in ProcsOf(r) :
          /\ View(r)[p].at = Stage(r, p) /\ View(r)[p].A = init[r].arrived["sl_condition"][p]
          /\ View(r)[p].E = init[r].arrived["sl_end_condition"][p]
    BY <1>2, ViewSays
  <2> QED BY <1>2, <1>5, <1>7, <2>1
<1>9. LocalOK(thread[u]) /\ thread[u].then \in Targets
  <2>1. ThreadOK(u)
    BY DEF LifeIInv, Placed
  <2>2. CASE thread[u].pc \in InRun
    BY <1>5, <2>1, <2>2, ThreadFields DEF ThreadOK
  <2>3. CASE thread[u].pc \notin InRun
    BY <1>5, <2>3, ThreadFields DEF LocalOK, InRun
  <2> QED BY <2>2, <2>3
<1>10. /\ DOMAIN init[r].arrived["sl_condition"] = ProcsOf(r)
       /\ DOMAIN init[r].arrived["sl_end_condition"] = ProcsOf(r)
  <2>1. init[r] \in RunOf(init[r].P) /\ ProcsOf(r) = 0 .. init[r].P - 1
    BY <1>2, RunType DEF Live, LifeIInv, Types
  <2> QED BY <2>1, RunFields DEF Arrays
<1>11. CASE thread[u].pc # "wait"
  <2>1. thread[u].pc \in {"due", "manual", "checkpointing"}
    <3>1. thread[u].pc = Stage(r, q)
      BY <1>5, <1>11 DEF StageOf
    <3>2. thread[u].pc \in PCs
      BY <1>5, ThreadFields
    <3> QED BY <1>8, <3>1, <3>2 DEF PCs
  <2>2. thread[u].pc # "checkpointing"
    BY <1>1, <1>5, <1>9 DEF LocalOK
  <2> QED BY <2>1, <2>2
<1>12. CASE thread[u].pc = "wait"
  <2>1. CASE thread[u].then \in {"due", "manual"}
    <3>1. Stage(r, q) \in {"to_due", "to_manual"}
      BY <1>5, <1>12, <2>1 DEF StageOf
    <3>2. thread[u].on = "sl_condition"
      BY <1>9, <1>12, <2>1 DEF LocalOK
    <3>3. Open(u)
      BY <1>1, <1>8, <1>10, <3>1, <3>2 DEF Open, Run
    <3> QED BY <1>12, <2>1, <3>3
  <2>2. CASE thread[u].then \notin {"due", "manual"}
    <3>1. Stage(r, q) = "to_user" /\ thread[u].on = "sl_end_condition"
      BY <1>5, <1>8, <1>9, <1>12, <2>2 DEF StageOf, Targets
    <3>2. b.E \in Nat
      BY BaseFields
    <3>3. ~ (init[r].arrived["sl_end_condition"][s] >= init[r].arrived["sl_end_condition"][q])
      BY <1>8, <3>1, <3>2
    <3>4. ~ Open(u)
      BY <1>1, <1>2, <1>10, <3>1, <3>3 DEF Open, Run
    <3> QED BY <1>12, <3>1, <3>4
  <2> QED BY <2>1, <2>2
<1> QED BY <1>11, <1>12

(* A process 0 that is in user code is not late. *)
LEMMA NobodyIsLate ==
  ASSUME LifeIInv, NEW t \in Threads, thread[t].pc = "user", thread[t].id = 0,
         ~ history.since[thread[t].run].touched
  PROVE  LET since == history.since[thread[t].run] IN
         /\ CpFrequency(Run(t)) > 0 => since.syncs < CpFrequency(Run(t))
         /\ Run(t).safe_cp_f > 0 => since.failing < Run(t).safe_cp_f
<1>1. PICK r : r = thread[t].run
  OBVIOUS
<1>2. /\ r \in Runs /\ Begun(r) /\ Live(r) /\ Stage(r, 0) = "user" /\ init[r] \in RunOf(init[r].P)
  BY <1>1, InRunFacts DEF InRun, StageOf
<1>3. PICK x, i : x = history.since[r] /\ i = init[r]
  OBVIOUS
<1>4. /\ i.cp_f \in Nat /\ i.safe_cp_f \in Nat /\ i.skipped_checkpoints \in Nat
      /\ x.syncs \in Nat /\ x.failing \in Nat
  BY <1>2, <1>3, RunFields DEF LifeIInv, Types, HistoryType, Histories
<1>5. /\ x.syncs = i.skipped_checkpoints /\ ~ i.no_cp /\ ~ Due(i)
      /\ i.safe_cp_f > 0 => Due(i) \/ x.failing <= i.skipped_checkpoints % i.safe_cp_f
  <2>1. DataOf(r)
    BY <1>2 DEF LifeIInv, DataInv
  <2> QED BY <1>1, <1>2, <1>3, <2>1 DEF DataOf
<1>6. CpFrequency(i) \in Nat
  BY <1>4 DEF CpFrequency
<1>7. CpFrequency(i) > 0 => x.syncs < CpFrequency(i)
  BY <1>4, <1>5, <1>6 DEF Due
<1>8. i.safe_cp_f > 0 => x.failing < i.safe_cp_f
  <2>1. ASSUME i.safe_cp_f > 0 PROVE i.skipped_checkpoints % i.safe_cp_f \in 0 .. i.safe_cp_f - 1
    BY <1>4, <2>1
  <2> QED BY <1>4, <1>5, <2>1
<1> QED BY <1>1, <1>3, <1>7, <1>8 DEF Run

(* Checkpoints are made while the other processes of the run stand still,
   and automatic ones not later than the frequency in force says
   (mcbsp.c:752-827, bsp.c:1019-1031). *)
THEOREM CheckpointsHold == Spec => []CheckpointsInv
<1>1. LifeIInv => CheckpointsAtRest
  BY OthersAtRest DEF CheckpointsAtRest
<1>2. LifeIInv => CheckpointsInTime
  BY NobodyIsLate DEF CheckpointsInTime
<1> QED BY <1>1, <1>2, InvariantHolds, PTL DEF CheckpointsInv
====
