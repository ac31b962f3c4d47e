------------------------ MODULE ConfigurationProofs -------------------------
(***************************************************************************)
(* Theorems about Configuration, for any numbers of threads, models and    *)
(* adapters, any contents of the file and any settings.                    *)
(***************************************************************************)
EXTENDS Configuration, FiniteSetTheorems, TLAPS

(* The labels at which a reload or a prune keeps the condition. *)
Keeping == {"reload", "parse", "confirm", "recheck", "replace", "rollback", "save"}

KeepsHolder == \A t \in Administrator : pc[t] \in Keeping => holder = t

(* The fields of a review; its revision may be any content. *)
IsReview(r) ==
  /\ r = [revision |-> r.revision, gone |-> r.gone, unused |-> r.unused, current |-> r.current]
  /\ r.gone \subseteq Model

ReviewShape ==
  /\ review = [t \in Administrator |-> review[t]]
  /\ \A t \in Administrator : IsReview(review[t])

(* What the last check of a prune has found is still so when it replaces the
   file: nobody announces a transition or a request while it keeps the
   condition, and without one nothing is loaded. *)
Checked(t) ==
  /\ review[t].revision = bytes
  /\ Quiet
  /\ Removable(review[t].gone, review[t].unused)

StillRemovable == \A t \in Administrator : pc[t] \in {"recheck", "replace"} => Checked(t)

JobShape == DOMAIN op = Thread /\ DOMAIN model = Thread

PruneInv ==
  /\ pc \in [Thread -> Label]
  /\ JobShape
  /\ KeepsHolder
  /\ ReviewShape
  /\ StillRemovable

-----------------------------------------------------------------------------
(* Administrators are threads apart from operators and the idle worker. *)
LEMMA ThreadFacts ==
  /\ \A t \in Administrator : t \in Thread /\ t # IdleWorker /\ t \notin Operator /\ t # None
  /\ IdleWorker \in Thread
BY ConfigurationAssumption DEF Thread

(* The core starts with nobody in a reload or a prune. *)
LEMMA PruneInitially == Init => PruneInv
<1> SUFFICES ASSUME Init PROVE PruneInv
  OBVIOUS
<1>1. pc \in [Thread -> Label] /\ \A t \in Administrator : pc[t] = "start"
  BY ThreadFacts DEF Init, Label
<1>2. review = [t \in Administrator |-> NoReview]
  BY DEF Init
<1>3. ReviewShape
  BY <1>2 DEF ReviewShape, IsReview, NoReview
<1>4. JobShape
  BY DEF Init, JobShape
<1> QED BY <1>1, <1>3, <1>4 DEF PruneInv, KeepsHolder, StillRemovable, Keeping

(* A step of one thread outside reloads and prunes, when nobody keeps the
   condition: nobody is about to replace the file. *)
LEMMA FreeSteps ==
  ASSUME PruneInv, holder = None, holder' = None, pc' \in [Thread -> Label], JobShape', ReviewShape',
         \A t \in Administrator : pc'[t] \in Keeping => pc[t] \in Keeping
  PROVE  PruneInv'
<1>1. \A t \in Administrator : pc[t] \notin Keeping
  BY ThreadFacts DEF PruneInv, KeepsHolder
<1> QED BY <1>1 DEF PruneInv, KeepsHolder, StillRemovable, Keeping

(* A step that announces nothing while somebody may keep the condition. *)
LEMMA QuietSteps ==
  ASSUME PruneInv, pc' \in [Thread -> Label], JobShape', ReviewShape',
         UNCHANGED <<holder, bytes, config, state, live>>,
         \A t \in Administrator : pc'[t] \in Keeping => pc'[t] = pc[t] /\ review'[t] = review[t],
         Quiet => Quiet'
  PROVE  PruneInv'
<1>1. KeepsHolder'
  BY DEF PruneInv, KeepsHolder
<1>2. StillRemovable'
  BY DEF PruneInv, StillRemovable, Checked, Removable, Models, Adapters, Keeping
<1> QED BY <1>1, <1>2 DEF PruneInv

(* A thread that goes on changes its own label only. *)
LEMMA GotoLabels ==
  ASSUME PruneInv, NEW t \in Thread, NEW label \in Label, Goto(t, label)
  PROVE  /\ pc' \in [Thread -> Label]
         /\ \A u \in Thread : pc'[u] = IF u = t THEN label ELSE pc[u]
         /\ JobShape'
BY DEF Goto, PruneInv, JobShape, jobVars

(* Reviews that stay keep their shape. *)
LEMMA SameReviews ==
  ASSUME PruneInv, UNCHANGED review
  PROVE  ReviewShape'
BY DEF PruneInv, ReviewShape, IsReview

(* Jobs keep their shape when a thread goes on. *)
LEMMA GotoShape ==
  ASSUME PruneInv, NEW t, NEW label, Goto(t, label) \/ UNCHANGED jobVars
  PROVE  JobShape'
BY DEF Goto, PruneInv, JobShape, jobVars

(* The operations on models, except for the ones that may run while somebody
   keeps the condition. *)
LEMMA OperateKeeps ==
  ASSUME PruneInv, NEW t \in Thread, Operate(t)
  PROVE  PruneInv'
<1>1. CASE Register(t)
  <2>1. holder = None /\ holder' = None /\ UNCHANGED review
    BY <1>1 DEF Register
  <2>2. \E label \in {"registered", "idle"} :
          pc' = [pc EXCEPT ![t] = label]
    BY <1>1 DEF Register, Goto
  <2>3. pc' \in [Thread -> Label] /\ \A u \in Administrator : pc'[u] \in Keeping => pc[u] \in Keeping
    BY <2>2, ThreadFacts DEF PruneInv, Label, Keeping
  <2>9. JobShape'
    BY <1>1, GotoShape DEF Register
  <2> QED BY <2>9, <2>1, <2>3, SameReviews, FreeSteps
<1>2. CASE FastPath(t)
  <2>1. holder = None /\ holder' = None /\ UNCHANGED review
    BY <1>2 DEF FastPath
  <2>2. \E label \in {"answer", "idle"} : pc' = [pc EXCEPT ![t] = label]
    BY <1>2 DEF FastPath, Goto
  <2>3. pc' \in [Thread -> Label] /\ \A u \in Administrator : pc'[u] \in Keeping => pc[u] \in Keeping
    BY <2>2, ThreadFacts DEF PruneInv, Label, Keeping
  <2>9. JobShape'
    BY <1>2, GotoShape DEF FastPath
  <2> QED BY <2>9, <2>1, <2>3, SameReviews, FreeSteps
<1>3. CASE Announce(t)
  <2>1. holder = None /\ holder' = None /\ UNCHANGED review
    BY <1>3 DEF Announce
  <2>2. \E label \in {"wait", "dead", "idle"} : pc' = [pc EXCEPT ![t] = label]
    BY <1>3 DEF Announce, Goto
  <2>3. pc' \in [Thread -> Label] /\ \A u \in Administrator : pc'[u] \in Keeping => pc[u] \in Keeping
    BY <2>2, ThreadFacts DEF PruneInv, Label, Keeping
  <2>9. JobShape'
    BY <1>3, GotoShape DEF Announce
  <2> QED BY <2>9, <2>1, <2>3, SameReviews, FreeSteps
<1>4. CASE Acquire(t)
  <2>1. ~Quiet /\ pc[t] = "wait"
    BY <1>4 DEF Acquire, Quiet, Announced
  <2>2. pc' = [pc EXCEPT ![t] = "locked"] /\ UNCHANGED <<holder, bytes, config, state, live, review>>
    BY <1>4 DEF Acquire, Goto, configVars, modelVars
  <2>3. pc' \in [Thread -> Label]
        /\ \A u \in Administrator : pc'[u] \in Keeping => pc'[u] = pc[u] /\ review'[u] = review[u]
    BY <2>2, ThreadFacts DEF PruneInv, Label, Keeping
  <2>9. JobShape'
    BY <1>4, GotoShape DEF Acquire
  <2> QED BY <2>9, <2>1, <2>2, <2>3, SameReviews, QuietSteps
<1>5. CASE Load(t)
  <2>1. holder = None /\ holder' = None /\ UNCHANGED review
    BY <1>5 DEF Load
  <2>2. pc' = [pc EXCEPT ![t] = "done"]
    BY <1>5 DEF Load, Goto
  <2>3. pc' \in [Thread -> Label] /\ \A u \in Administrator : pc'[u] \in Keeping => pc[u] \in Keeping
    BY <2>2, ThreadFacts DEF PruneInv, Label, Keeping
  <2>9. JobShape'
    BY <1>5, GotoShape DEF Load
  <2> QED BY <2>9, <2>1, <2>3, SameReviews, FreeSteps
<1>6. CASE Unload(t)
  <2>1. holder = None /\ holder' = None /\ UNCHANGED review
    BY <1>6 DEF Unload
  <2>2. \E label \in {"done", "refused"} : pc' = [pc EXCEPT ![t] = label]
    BY <1>6 DEF Unload, Goto
  <2>3. pc' \in [Thread -> Label] /\ \A u \in Administrator : pc'[u] \in Keeping => pc[u] \in Keeping
    BY <2>2, ThreadFacts DEF PruneInv, Label, Keeping
  <2>9. JobShape'
    BY <1>6, GotoShape DEF Unload
  <2> QED BY <2>9, <2>1, <2>3, SameReviews, FreeSteps
<1>7. CASE Release(t)
  <2>1. holder = None /\ holder' = None /\ UNCHANGED review
    BY <1>7 DEF Release
  <2> DEFINE label == CASE t = IdleWorker /\ pc[t] = "refused" -> "handle"
                       [] t = IdleWorker /\ pc[t] = "done" -> "due"
                       [] op[t] = "request" /\ state[model[t]] = "ready" -> "answer"
                       [] OTHER -> "idle"
  <2>2a. pc' = [pc EXCEPT ![t] = label]
    BY <1>7 DEF Release, Goto
  <2>2b. label \in {"handle", "due", "answer", "idle"}
    OBVIOUS
  <2> HIDE DEF label
  <2>2. \E lbl \in {"handle", "due", "answer", "idle"} : pc' = [pc EXCEPT ![t] = lbl]
    BY <2>2a, <2>2b
  <2>3. pc' \in [Thread -> Label] /\ \A u \in Administrator : pc'[u] \in Keeping => pc[u] \in Keeping
    BY <2>2, ThreadFacts DEF PruneInv, Label, Keeping
  <2>9. JobShape'
    BY <1>7, GotoShape DEF Release
  <2> QED BY <2>9, <2>1, <2>3, SameReviews, FreeSteps
<1>8. CASE Answer(t) \/ EndRequest(t)
  <2>1. holder = None /\ holder' = None /\ UNCHANGED review
    BY <1>8 DEF Answer, EndRequest
  <2>2. \E label \in {"relay", "lost", "idle"} : pc' = [pc EXCEPT ![t] = label]
    BY <1>8 DEF Answer, EndRequest, Goto
  <2>3. pc' \in [Thread -> Label] /\ \A u \in Administrator : pc'[u] \in Keeping => pc[u] \in Keeping
    BY <2>2, ThreadFacts DEF PruneInv, Label, Keeping
  <2>9. JobShape'
    BY <1>8, GotoShape DEF Answer, EndRequest
  <2> QED BY <2>9, <2>1, <2>3, SameReviews, FreeSteps
<1> QED BY <1>1, <1>2, <1>3, <1>4, <1>5, <1>6, <1>7, <1>8 DEF Operate

(* A label that neither announces nor registers anything. *)
Calm == Label \ {"wait", "locked", "done", "refused"}

(* What an administrator or the idle worker does with such a label leaves the
   requests and the announcements as they are. *)
LEMMA CalmGoto ==
  ASSUME PruneInv, NEW t \in Administrator \cup {IdleWorker}, NEW label \in Calm, Goto(t, label)
  PROVE  /\ pc' \in [Thread -> Label]
         /\ \A u \in Thread : pc'[u] = IF u = t THEN label ELSE pc[u]
         /\ Quiet => Quiet'
         /\ JobShape'
<1>1. t \in Thread /\ t \notin Operator
  BY ConfigurationAssumption DEF Thread
<1>2. pc' = [pc EXCEPT ![t] = label]
  BY DEF Goto
<1>3. \A u \in Operator : u \in Thread /\ pc'[u] = pc[u] /\ op'[u] = op[u] /\ model'[u] = model[u]
  BY <1>1 DEF Goto, jobVars, PruneInv, JobShape, Thread
<1>4. pc' \in [Thread -> Label] /\ \A u \in Thread : pc'[u] = IF u = t THEN label ELSE pc[u]
  BY <1>1, <1>2 DEF PruneInv, Calm
<1>5. \A m : Requests(m)' = Requests(m)
  BY <1>3 DEF Requests
<1>6. Announced' \subseteq Announced
  BY <1>4 DEF Announced, Calm
<1> QED BY <1>4, <1>5, <1>6, GotoShape DEF Quiet

(* A step of the administrator that keeps the condition, or that takes it. *)
LEMMA HolderSteps ==
  ASSUME PruneInv, NEW t \in Administrator, holder \in {t, None},
         pc' \in [Thread -> Label], JobShape', ReviewShape',
         \A u \in Administrator \ {t} : pc'[u] = pc[u],
         pc'[t] \in Keeping => holder' = t,
         pc'[t] \in {"recheck", "replace"} => Checked(t)'
  PROVE  PruneInv'
<1>1. \A u \in Administrator \ {t} : pc'[u] \notin Keeping
  BY ThreadFacts DEF PruneInv, KeepsHolder
<1>2. KeepsHolder' /\ StillRemovable'
  BY <1>1 DEF KeepsHolder, StillRemovable, Keeping
<1> QED BY <1>2 DEF PruneInv

(* A model is read by a thread that announces nothing yet. *)
LEMMA ReadModelKeeps ==
  ASSUME PruneInv, NEW t \in Operator \cup {IdleWorker}, NEW what, NEW m, ReadModel(t, what, m)
  PROVE  PruneInv'
<1>1. t \in Thread /\ t \notin Administrator
  BY ConfigurationAssumption DEF Thread
<1>2. pc' = [pc EXCEPT ![t] = "read"] /\ JobShape' /\ UNCHANGED <<holder, bytes, config, state, live, review>>
  BY DEF ReadModel, PruneInv, JobShape, configVars, modelVars
<1>3. pc' \in [Thread -> Label] /\ \A u \in Thread : pc'[u] = IF u = t THEN "read" ELSE pc[u]
  BY <1>1, <1>2 DEF PruneInv, Label
<1>4. \A u \in Operator \ {t} : op'[u] = op[u] /\ model'[u] = model[u]
  BY DEF ReadModel, PruneInv, JobShape, Thread
<1>5. \A n \in Model : Requests(n)' \subseteq Requests(n)
  BY <1>3, <1>4 DEF Requests, Thread
<1>6. Announced' \subseteq Announced
  BY <1>3 DEF Announced
<1>7. Quiet => Quiet'
  BY <1>5, <1>6 DEF Quiet
<1>8. \A u \in Administrator : pc'[u] \in Keeping => pc'[u] = pc[u] /\ review'[u] = review[u]
  BY <1>1, <1>2, <1>3, ThreadFacts
<1> QED BY <1>2, <1>3, <1>7, <1>8, SameReviews, QuietSteps

(* The idle worker reads and rests whoever keeps the condition; it looks at
   the models and takes a refusal only when nobody does. *)
LEMMA IdleKeeps ==
  ASSUME PruneInv, IdleScan \/ IdleNext \/ IdleHandle \/ IdleRest
  PROVE  PruneInv'
<1>1. CASE IdleScan
  <2>1. Goto(IdleWorker, "due") /\ holder = None /\ UNCHANGED <<holder, review>>
    BY <1>1 DEF IdleScan
  <2>2. "due" \in Calm
    BY DEF Calm, Label
  <2>3. pc' \in [Thread -> Label] /\ JobShape' /\ \A u \in Administrator : pc'[u] = pc[u]
    BY <2>1, <2>2, CalmGoto, ThreadFacts
  <2> QED BY <2>1, <2>3, SameReviews, FreeSteps
<1>2. CASE IdleNext
  <2>1. PICK m \in due :
          IF m \in Models(config)
          THEN ReadModel(IdleWorker, "unload", m)
          ELSE /\ model' = [model EXCEPT ![IdleWorker] = m]
               /\ pc' = [pc EXCEPT ![IdleWorker] = "handle"]
               /\ UNCHANGED <<fileVars, configVars, settingsVars, modelVars, op, via, attached,
                              keys, holder, reading, review>>
    BY <1>2 DEF IdleNext
  <2>2. CASE m \in Models(config)
    BY <2>1, <2>2, ReadModelKeeps
  <2>3. CASE m \notin Models(config)
    <3>1. /\ pc' \in [Thread -> Label] /\ JobShape'
          /\ \A u \in Thread : pc'[u] = IF u = IdleWorker THEN "handle" ELSE pc[u]
          /\ UNCHANGED <<holder, bytes, config, state, live, review, op>>
      BY <2>1, <2>3, ThreadFacts DEF PruneInv, JobShape, Label, configVars, modelVars
    <3>2. \A u \in Operator : pc'[u] = pc[u] /\ model'[u] = model[u]
      BY <2>1, <2>3, <3>1, ConfigurationAssumption DEF PruneInv, JobShape, Thread
    <3>3. Announced' \subseteq Announced /\ \A n : Requests(n)' = Requests(n)
      BY <3>1, <3>2 DEF Announced, Requests
    <3>4. Quiet => Quiet'
      BY <3>3 DEF Quiet
    <3>5. \A u \in Administrator : pc'[u] = pc[u] /\ review'[u] = review[u]
      BY <3>1, ThreadFacts
    <3> QED BY <3>1, <3>4, <3>5, SameReviews, QuietSteps
  <2> QED BY <2>2, <2>3
<1>3. CASE IdleHandle
  <2>1. PICK label \in {"dead", "due"} : Goto(IdleWorker, label)
    BY <1>3 DEF IdleHandle
  <2>2. label \in Calm /\ holder = None /\ UNCHANGED <<holder, review>>
    BY <1>3 DEF IdleHandle, Calm, Label
  <2>3. pc' \in [Thread -> Label] /\ JobShape' /\ \A u \in Administrator : pc'[u] = pc[u]
    BY <2>1, <2>2, CalmGoto, ThreadFacts
  <2> QED BY <2>2, <2>3, SameReviews, FreeSteps
<1>4. CASE IdleRest
  <2>1. /\ pc' \in [Thread -> Label] /\ JobShape'
        /\ \A u \in Thread : pc'[u] = IF u = IdleWorker THEN "scan" ELSE pc[u]
        /\ UNCHANGED <<holder, bytes, config, state, live, review>>
    BY <1>4, ThreadFacts DEF IdleRest, PruneInv, JobShape, Label, configVars, modelVars
  <2>2. \A u \in Operator : pc'[u] = pc[u] /\ op'[u] = op[u] /\ model'[u] = model[u]
    BY <1>4, <2>1, ConfigurationAssumption DEF IdleRest, PruneInv, JobShape, Thread
  <2>3. Announced' \subseteq Announced /\ \A n : Requests(n)' = Requests(n)
    BY <2>1, <2>2 DEF Announced, Requests
  <2>4. Quiet => Quiet'
    BY <2>3 DEF Quiet
  <2>5. \A u \in Administrator : pc'[u] = pc[u] /\ review'[u] = review[u]
    BY <2>1, ThreadFacts
  <2> QED BY <2>1, <2>4, <2>5, SameReviews, QuietSteps
<1> QED BY <1>1, <1>2, <1>3, <1>4

(* A review whose validity changes keeps its shape. *)
LEMMA ReviewMarked ==
  ASSUME NEW r, NEW b, IsReview(r)
  PROVE  IsReview([r EXCEPT !.current = b])
<1> DEFINE marked == [revision |-> r.revision, gone |-> r.gone, unused |-> r.unused, current |-> b]
<1>1. r = [revision |-> r.revision, gone |-> r.gone, unused |-> r.unused, current |-> r.current]
  BY DEF IsReview
<1>2. [r EXCEPT !.current = b] = marked
  BY <1>1
<1>3. IsReview(marked)
  BY DEF IsReview
<1> QED BY <1>2, <1>3

(* Reviews lose their validity, and keep their shape. *)
LEMMA StaleReviews ==
  ASSUME PruneInv, review' = [u \in Administrator |-> [review[u] EXCEPT !.current = FALSE]]
  PROVE  ReviewShape'
<1>1. ASSUME NEW u \in Administrator PROVE IsReview(review[u])'
  <2>1. IsReview(review[u])
    BY DEF PruneInv, ReviewShape
  <2>2. review'[u] = [revision |-> review[u].revision, gone |-> review[u].gone,
                      unused |-> review[u].unused, current |-> FALSE]
    BY <2>1 DEF IsReview
  <2> QED BY <2>1, <2>2 DEF IsReview
<1>2. review' = [u \in Administrator |-> review'[u]]
  OBVIOUS
<1> QED BY <1>1, <1>2 DEF ReviewShape

(* Saved settings may start the idle worker and change no other thread. *)
LEMMA SettingsKeep ==
  ASSUME PruneInv, UpdateSettings
  PROVE  PruneInv'
<1>1. /\ holder = None /\ holder' = None /\ JobShape'
      /\ review' = [u \in Administrator |-> [review[u] EXCEPT !.current = FALSE]]
  BY DEF UpdateSettings, PruneInv, JobShape, jobVars
<1>2. PICK label \in {"scan", pc[IdleWorker]} : pc' = [pc EXCEPT ![IdleWorker] = label]
  BY DEF UpdateSettings, Wanted
<1>3. pc' \in [Thread -> Label] /\ \A u \in Administrator : pc'[u] = pc[u]
  BY <1>2, ThreadFacts DEF PruneInv, Label
<1> QED BY <1>1, <1>3, StaleReviews, FreeSteps

(* What HolderSteps asks of a step that only moves the administrator on. *)
LEMMA AdministratorMoves ==
  ASSUME PruneInv, NEW t \in Administrator, holder \in {t, None},
         NEW label \in Calm, Goto(t, label), ReviewShape',
         label \in Keeping => holder' = t,
         label \in {"recheck", "replace"} => Checked(t)'
  PROVE  PruneInv'
<1>1. /\ pc' \in [Thread -> Label] /\ JobShape'
      /\ \A u \in Thread : pc'[u] = IF u = t THEN label ELSE pc[u]
  BY CalmGoto
<1>2. pc'[t] = label /\ \A u \in Administrator \ {t} : pc'[u] = pc[u]
  BY <1>1, ThreadFacts
<1> QED BY <1>1, <1>2, HolderSteps

(* A refused reload ends, or rolls its prune back. *)
LEMMA RejectedKeeps ==
  ASSUME PruneInv, NEW t \in Administrator, holder = t, Rejected(t)
  PROVE  PruneInv'
<1>1. ReviewShape'
  BY SameReviews DEF Rejected
<1>2. CASE review[t] # NoReview
  BY <1>1, <1>2, AdministratorMoves DEF Rejected, Calm, Label
<1>3. CASE review[t] = NoReview
  BY <1>1, <1>3, AdministratorMoves DEF Rejected, Calm, Label, Keeping
<1> QED BY <1>2, <1>3

(* A reload that takes the configuration over invalidates all reviews. *)
LEMMA AdoptKeeps ==
  ASSUME PruneInv, NEW t \in Administrator, NEW STATE c, holder = t, Adopt(t, c)
  PROVE  PruneInv'
<1>1. ReviewShape'
  BY StaleReviews DEF Adopt
<1>2. JobShape'
  BY DEF Adopt, PruneInv, JobShape, jobVars
<1>3. PICK label \in {"scan", pc[IdleWorker]}, mine \in {"save", "idle"} :
        /\ pc' = [pc EXCEPT ![t] = mine, ![IdleWorker] = label]
        /\ mine = "save" => holder' = t
  BY DEF Adopt, Wanted
<1>4. /\ pc' \in [Thread -> Label]
      /\ pc'[t] = mine
      /\ \A u \in Administrator \ {t} : pc'[u] = pc[u]
  BY <1>3, ThreadFacts DEF PruneInv, Label
<1> QED BY <1>1, <1>2, <1>3, <1>4, HolderSteps DEF Keeping

(* The steps of reload_config. *)
LEMMA ReloadKeeps ==
  ASSUME PruneInv, NEW t \in Administrator, ReloadStep(t)
  PROVE  PruneInv'
<1>1. pc[t] \in Keeping => holder = t
  BY DEF PruneInv, KeepsHolder
<1>2. CASE BeginReload(t)
  BY <1>2, SameReviews, AdministratorMoves DEF BeginReload, Calm, Label
<1>3. CASE Reload(t)
  BY <1>1, <1>3, SameReviews, AdministratorMoves DEF Reload, Calm, Label, Keeping
<1>4. CASE Parse(t)
  <2>1. holder = t
    BY <1>1, <1>4 DEF Parse, Keeping
  <2>2. CASE Loadable(file)
    BY <1>4, <2>1, <2>2, SameReviews, AdministratorMoves DEF Parse, Calm, Label
  <2>3. CASE ~Loadable(file)
    BY <1>4, <2>1, <2>3, RejectedKeeps DEF Parse
  <2> QED BY <2>2, <2>3
<1>5. CASE Confirm(t)
  <2>1. holder = t
    BY <1>1, <1>5 DEF Confirm, Keeping
  <2>2. Adopt(t, reading.parsed) \/ Rejected(t)
    BY <1>5 DEF Confirm
  <2> QED BY <2>1, <2>2, AdoptKeeps, RejectedKeeps
<1> QED BY <1>2, <1>3, <1>4, <1>5 DEF ReloadStep

(* A prune that ends forgets its review. *)
LEMMA GivesUpKeeps ==
  ASSUME PruneInv, NEW t \in Administrator, holder \in {t, None}, GivesUp(t)
  PROVE  PruneInv'
<1>1. review' = [review EXCEPT ![t] = NoReview]
  BY DEF GivesUp
<1>2. ReviewShape'
  BY <1>1 DEF PruneInv, ReviewShape, IsReview, NoReview
<1> QED BY <1>2, AdministratorMoves DEF GivesUp, Calm, Label, Keeping

(* A review that was checked stays checked while its administrator moves on. *)
LEMMA CheckedStays ==
  ASSUME PruneInv, NEW t \in Administrator, NEW label \in Calm, Goto(t, label),
         Checked(t), UNCHANGED <<bytes, config, state, live, review>>
  PROVE  Checked(t)'
<1>1. Quiet'
  BY CalmGoto DEF Checked
<1> QED BY <1>1 DEF Checked, Removable, Models, Adapters

(* The steps of prune_unavailable_models; only the check under the condition
   establishes what the replacement needs. *)
LEMMA PruneKeeps ==
  ASSUME PruneInv, NEW t \in Administrator, PruneStep(t)
  PROVE  PruneInv'
<1>1. pc[t] \in Keeping => holder = t
  BY DEF PruneInv, KeepsHolder
<1>2. CASE Review(t)
  <2>1. PICK r \in Reviewable :
          review' = [review EXCEPT ![t] =
            [revision |-> bytes, gone |-> r.gone, unused |-> r.unused, current |-> FALSE]]
    BY <1>2 DEF Review
  <2>2. r.gone \subseteq Model
    BY ConfigurationAssumption
  <2>3. ReviewShape'
    BY <2>1, <2>2 DEF PruneInv, ReviewShape, IsReview
  <2>4. /\ pc' = [pc EXCEPT ![t] = "reviewed"] /\ JobShape'
        /\ UNCHANGED <<holder, bytes, config, state, live, op, model>>
    BY <1>2 DEF Review, PruneInv, JobShape, configVars, modelVars, jobVars
  <2>5. pc' \in [Thread -> Label] /\ \A u \in Thread : pc'[u] = IF u = t THEN "reviewed" ELSE pc[u]
    BY <2>4, ThreadFacts DEF PruneInv, Label
  <2>6. \A u \in Operator : pc'[u] = pc[u]
    BY <2>5, ThreadFacts DEF Thread
  <2>7. Announced' \subseteq Announced /\ \A m : Requests(m)' = Requests(m)
    BY <2>4, <2>5, <2>6 DEF Announced, Requests
  <2>8. Quiet => Quiet'
    BY <2>7 DEF Quiet
  <2>9. \A u \in Administrator : pc'[u] \in Keeping => pc'[u] = pc[u] /\ review'[u] = review[u]
    BY <2>1, <2>5, ThreadFacts DEF Keeping, PruneInv, ReviewShape
  <2> QED BY <2>3, <2>4, <2>5, <2>8, <2>9, QuietSteps
<1>3. CASE PruneBegin(t)
  <2>1. CASE review[t].revision = bytes /\ Quiet
    <3>1. review' = [review EXCEPT ![t].current = TRUE] /\ Goto(t, "probed") /\ holder = None
      BY <1>3, <2>1 DEF PruneBegin
    <3>2. IsReview(review[t])
      BY DEF PruneInv, ReviewShape
    <3>3. review' = [review EXCEPT ![t] = [review[t] EXCEPT !.current = TRUE]]
      BY <3>1
    <3>4. IsReview([review[t] EXCEPT !.current = TRUE])
      BY <3>2, ReviewMarked
    <3>5. review' = [u \in Administrator |-> IF u = t THEN [review[t] EXCEPT !.current = TRUE] ELSE review[u]]
      BY <3>3 DEF PruneInv, ReviewShape
    <3>6. \A u \in Administrator : IsReview(review'[u])
      BY <3>4, <3>5 DEF PruneInv, ReviewShape
    <3>7. ReviewShape'
      BY <3>5, <3>6 DEF ReviewShape, IsReview
    <3> QED BY <3>1, <3>7, AdministratorMoves DEF Calm, Label, Keeping
  <2>2. CASE ~(review[t].revision = bytes /\ Quiet)
    BY <1>3, <2>2, GivesUpKeeps DEF PruneBegin
  <2> QED BY <2>1, <2>2
<1>4. CASE PruneCheck(t)
  <2>1. holder = None
    BY <1>4 DEF PruneCheck
  <2>2. CASE Goto(t, "recheck") /\ holder' = t /\ UNCHANGED review
    <3>1. Checked(t) \/ GivesUp(t)
      BY <1>4 DEF PruneCheck, Checked
    <3>2. CASE Checked(t)
      <4>1. UNCHANGED <<bytes, config, state, live, review>>
        BY <1>4, <2>2 DEF PruneCheck, configVars, modelVars
      <4>2. "recheck" \in Calm
        BY DEF Calm, Label
      <4>3. Checked(t)'
        BY <2>2, <3>2, <4>1, <4>2, CheckedStays
      <4> QED BY <2>1, <2>2, <4>2, <4>3, SameReviews, AdministratorMoves
    <3> QED BY <2>1, <3>1, <3>2, GivesUpKeeps
  <2>3. CASE GivesUp(t)
    BY <2>1, <2>3, GivesUpKeeps
  <2> QED BY <1>4, <2>2, <2>3 DEF PruneCheck
<1>5. CASE PruneRecheck(t)
  <2>1. holder = t
    BY <1>1, <1>5 DEF PruneRecheck, Keeping
  <2>2. CASE Goto(t, "replace") /\ UNCHANGED <<holder, review>>
    <3>1. UNCHANGED <<bytes, config, state, live, review>>
      BY <1>5, <2>2 DEF PruneRecheck, configVars, modelVars
    <3>2. "replace" \in Calm
      BY DEF Calm, Label
    <3>3. Checked(t)
      BY <1>5 DEF PruneRecheck, PruneInv, StillRemovable
    <3>4. Checked(t)'
      BY <2>2, <3>1, <3>2, <3>3, CheckedStays
    <3> QED BY <2>1, <2>2, <3>2, <3>4, SameReviews, AdministratorMoves
  <2>3. CASE GivesUp(t)
    BY <2>1, <2>3, GivesUpKeeps
  <2> QED BY <1>5, <2>2, <2>3 DEF PruneRecheck
<1>6. CASE PruneReplace(t)
  BY <1>1, <1>6, SameReviews, AdministratorMoves DEF PruneReplace, Calm, Label, Keeping
<1>7. CASE Rollback(t)
  BY <1>1, <1>7, GivesUpKeeps DEF Rollback, Keeping
<1>8. CASE SavePolicies(t)
  BY <1>1, <1>8, GivesUpKeeps DEF SavePolicies, Keeping
<1> QED BY <1>2, <1>3, <1>4, <1>5, <1>6, <1>7, <1>8 DEF PruneStep

(* The end of a start finds nobody in a reload or a prune. *)
LEMMA StartKeeps ==
  ASSUME PruneInv, Start
  PROVE  PruneInv'
<1>1. pc' = [t \in Thread |-> IF t # IdleWorker THEN "idle"
                             ELSE IF settings.idle THEN "scan" ELSE "none"]
      /\ UNCHANGED <<op, model, review>>
  BY DEF Start, jobVars
<1>2. pc' \in [Thread -> Label] /\ \A t \in Administrator : pc'[t] = "idle"
  BY <1>1, ThreadFacts DEF Label
<1>3. JobShape'
  BY <1>1 DEF PruneInv, JobShape
<1> QED BY <1>1, <1>2, <1>3, SameReviews DEF PruneInv, KeepsHolder, StillRemovable, Keeping

(* A restart forgets every review. *)
LEMMA RestartKeeps ==
  ASSUME PruneInv, Restart
  PROVE  PruneInv'
<1>1. pc' \in [Thread -> Label] /\ \A t \in Administrator : pc'[t] = "start"
  BY ThreadFacts DEF Restart, Label
<1>2. review' = [t \in Administrator |-> NoReview]
  BY DEF Restart
<1>3. ReviewShape'
  BY <1>2 DEF ReviewShape, IsReview, NoReview
<1>4. JobShape'
  BY DEF Restart, JobShape
<1> QED BY <1>1, <1>3, <1>4 DEF PruneInv, KeepsHolder, StillRemovable, Keeping

(* An edit, and a step of nobody. *)
LEMMA OutsideKeeps ==
  ASSUME PruneInv, Edit \/ UNCHANGED vars
  PROVE  PruneInv'
<1>1. UNCHANGED <<pc, op, model, bytes, config, state, live, holder, review>>
  BY DEF Edit, vars, configVars, modelVars, jobVars
<1>2. JobShape' /\ ReviewShape' /\ KeepsHolder'
  BY <1>1 DEF PruneInv, JobShape, ReviewShape, IsReview, KeepsHolder
<1>3. Announced' = Announced /\ \A m : Requests(m)' = Requests(m)
  BY <1>1 DEF Announced, Requests
<1>4. Quiet => Quiet'
  BY <1>3 DEF Quiet
<1> QED BY <1>1, <1>2, <1>4, QuietSteps DEF PruneInv

(* The invariant of prunes is inductive. *)
LEMMA PruneInvKept == PruneInv /\ [Next]_vars => PruneInv'
<1> SUFFICES ASSUME PruneInv, [Next]_vars PROVE PruneInv'
  OBVIOUS
<1>1. CASE \E t \in Operator, m \in Model : Begin(t, m)
  BY <1>1, ReadModelKeeps DEF Begin
<1>2. CASE \E t \in Thread : Operate(t)
  BY <1>2, OperateKeeps
<1>3. CASE \E t \in Administrator : ReloadStep(t) \/ PruneStep(t)
  BY <1>3, ReloadKeeps, PruneKeeps
<1>4. CASE IdleScan \/ IdleNext \/ IdleHandle \/ IdleRest
  BY <1>4, IdleKeeps
<1>5. CASE UpdateSettings
  BY <1>5, SettingsKeep
<1>6. CASE Restart \/ Start
  BY <1>6, RestartKeeps, StartKeeps
<1>7. CASE Edit \/ UNCHANGED vars
  BY <1>7, OutsideKeeps
<1> QED BY <1>1, <1>2, <1>3, <1>4, <1>5, <1>6, <1>7 DEF Next


(* Only the replacement itself takes an administrator on to the reload: every
   other step has another guard, or is another thread's. *)
LEMMA OnlyReplaceMoves ==
  ASSUME PruneInv, Next, NEW t \in Administrator, pc[t] = "replace", pc'[t] = "reload"
  PROVE  PruneReplace(t)
<1>1. t \in Thread /\ t # IdleWorker /\ t \notin Operator
  BY ThreadFacts
<1>2. ASSUME NEW u, u # t, NEW label, Goto(u, label) PROVE FALSE
  BY <1>1, <1>2 DEF Goto, PruneInv
<1>3. ASSUME NEW u, Operate(u) PROVE FALSE
  <2>1. u # t
    BY <1>3 DEF Operate, Register, FastPath, Announce, Acquire, Load, Unload, Release, Answer, EndRequest
  <2>2. \/ UNCHANGED pc \/ \E label : Goto(u, label) \/ pc' = [pc EXCEPT ![u] = label]
    BY <1>3 DEF Operate, Register, FastPath, Announce, Acquire, Load, Unload, Release, Answer, EndRequest
  <2> QED BY <1>1, <1>2, <2>1, <2>2 DEF PruneInv
<1>4. ASSUME NEW u, ReloadStep(u) PROVE FALSE
  <2>1. u # t
    BY <1>4 DEF ReloadStep, BeginReload, Reload, Parse, Confirm
  <2>2. CASE \E label : Goto(u, label)
    BY <1>2, <2>1, <2>2
  <2>3. CASE Adopt(u, reading.parsed)
    BY <1>1, <2>1, <2>3 DEF Adopt, PruneInv
  <2>4. CASE Rejected(u)
    BY <1>2, <2>1, <2>4 DEF Rejected
  <2> QED BY <1>4, <2>2, <2>3, <2>4 DEF ReloadStep, BeginReload, Reload, Parse, Confirm
<1>5. ASSUME NEW u, PruneStep(u) PROVE PruneReplace(t)
  <2>1. CASE u = t
    BY <1>5, <2>1 DEF PruneStep, Review, PruneBegin, PruneCheck, PruneRecheck, Rollback, SavePolicies
  <2>2. CASE u # t
    <3>1. CASE \E label : Goto(u, label)
      BY <1>2, <2>2, <3>1
    <3>2. CASE Review(u)
      BY <1>1, <2>2, <3>2 DEF Review, PruneInv
    <3> QED BY <1>5, <3>1, <3>2 DEF PruneStep, PruneBegin, PruneCheck, PruneRecheck, PruneReplace,
          Rollback, SavePolicies, GivesUp
  <2> QED BY <2>1, <2>2
<1>6. ASSUME NEW u \in Operator, NEW m, Begin(u, m) PROVE FALSE
  BY <1>1, <1>6 DEF Begin, ReadModel, PruneInv
<1>7. ASSUME IdleScan \/ IdleNext \/ IdleHandle \/ IdleRest PROVE FALSE
  <2>1. \/ \E label : Goto(IdleWorker, label) \/ pc' = [pc EXCEPT ![IdleWorker] = label]
    BY <1>7 DEF IdleScan, IdleNext, IdleHandle, IdleRest, ReadModel
  <2> QED BY <1>1, <1>2, <2>1 DEF PruneInv
<1>8. ASSUME UpdateSettings \/ Edit \/ Restart \/ Start PROVE FALSE
  BY <1>1, <1>8 DEF UpdateSettings, Edit, Restart, Start, PruneInv
<1> QED BY <1>3, <1>4, <1>5, <1>6, <1>7, <1>8 DEF Next

(* The replacement writes what was reviewed, of which nothing is in use. *)
LEMMA ReplaceWritesReviewed ==
  ASSUME PruneInv, NEW t \in Administrator, PruneReplace(t)
  PROVE  /\ file' = Without(review[t].revision, review[t].gone, review[t].unused)
         /\ \A m \in review[t].gone : state[m] # "ready" /\ Requests(m) = {}
         /\ \A u \in Announced : model[u] \notin review[t].gone /\ via[u] \notin review[t].unused
<1>1. Checked(t)
  BY DEF PruneReplace, PruneInv, StillRemovable
<1>2. review[t].gone \subseteq Model
  BY DEF PruneInv, ReviewShape, IsReview
<1>3. file' = Without(review[t].revision, review[t].gone, review[t].unused)
  BY <1>1 DEF PruneReplace, Checked
<1>4. \A m \in review[t].gone : state[m] # "ready" /\ Requests(m) = {}
  BY <1>1, <1>2 DEF Checked, Quiet, Removable
<1>5. Announced = {}
  BY <1>1 DEF Checked, Quiet
<1> QED BY <1>3, <1>4, <1>5

(* A prune writes what was reviewed: the file it writes is the reviewed
   revision without the reviewed names, and none of them is in use, although
   requests, switches, settings, edits and other administrators go on between
   the review, the two checks and the replacement. *)
THEOREM PruneAlwaysWritesReviewed == Spec => PruneWritesReviewed
<1> DEFINE Writes ==
      \A t \in Administrator : pc[t] = "replace" /\ pc'[t] = "reload" =>
        /\ file' = Without(review[t].revision, review[t].gone, review[t].unused)
        /\ \A m \in review[t].gone : state[m] # "ready" /\ Requests(m) = {}
        /\ \A u \in Announced : model[u] \notin review[t].gone /\ via[u] \notin review[t].unused
<1>1. PruneInv /\ Next => Writes
  BY OnlyReplaceMoves, ReplaceWritesReviewed
<1>2. PruneInv /\ [Next]_vars => [Writes]_vars
  BY <1>1
<1>3. Spec => [][Writes]_vars
  BY <1>2, PruneInitially, PruneInvKept, PTL DEF Spec
<1> QED BY <1>3 DEF PruneWritesReviewed

-----------------------------------------------------------------------------
(* The labels between the first reading of a reload and its third, and those
   at which edits are counted. *)
Reading == {"parse", "confirm"}
Watched == Reading \cup {"start"}

(* What is parsed is what was read first, or the file is another one by now,
   unless it was edited twice. *)
ReadingsAgree ==
  /\ reading = [read |-> reading.read, parsed |-> reading.parsed, edits |-> reading.edits]
  /\ reading.edits \in Nat
  /\ \A t \in Administrator : pc[t] = "parse" =>
       /\ reading.edits = 0 => file = reading.read
       /\ reading.edits = 1 => file # reading.read
  /\ \A t \in Administrator : pc[t] = "confirm" =>
       /\ reading.edits = 0 => file = reading.read /\ reading.parsed = reading.read
       /\ reading.edits = 1 => reading.parsed = reading.read \/ file # reading.read

(* While a core starts nobody is served, and what it has loaded is in the file
   unless that was edited. *)
StartsTogether ==
  pc[IdleWorker] = "start" =>
    /\ \A t \in Administrator : pc[t] = "start"
    /\ reading.edits = 0 => config = [file EXCEPT !.idle = config.idle]

(* The fields of a content, whatever the idle timeout. *)
HasFields(c) ==
  /\ c = [parses |-> c.parses, port |-> c.port, adapterOf |-> c.adapterOf,
          canonical |-> c.canonical, groups |-> c.groups, idle |-> c.idle]
  /\ Models(c) \subseteq Model
  /\ DOMAIN c.canonical = Models(c)
  /\ Adapters(c) \subseteq Adapter /\ c.groups \subseteq Group

(* Whatever was read is a content, and what is in force loads. *)
ContentsSound ==
  /\ IsContent(file)
  /\ HasFields(config) /\ Loadable(config)
  /\ undisturbed => IsContent(bytes)
  /\ \A t \in Administrator : pc[t] # "start" => IsContent(bytes)
  /\ \A t \in Administrator : pc[t] \in Reading => IsContent(reading.read)
  /\ \A t \in Administrator : pc[t] = "confirm" => IsContent(reading.parsed) /\ Loadable(reading.parsed)

(* A content with another idle timeout differs in nothing else. *)
LEMMA IdleReplaced ==
  ASSUME NEW c, NEW b, HasFields(b), c = [b EXCEPT !.idle = c.idle]
  PROVE  /\ c.adapterOf = b.adapterOf /\ c.port = b.port /\ c.canonical = b.canonical
         /\ c.groups = b.groups /\ c.parses = b.parses
         /\ HasFields(c) /\ (Loadable(c) <=> Loadable(b))
<1>1. /\ c.adapterOf = b.adapterOf /\ c.port = b.port /\ c.canonical = b.canonical
      /\ c.groups = b.groups /\ c.parses = b.parses
      /\ c = [parses |-> c.parses, port |-> c.port, adapterOf |-> c.adapterOf,
              canonical |-> c.canonical, groups |-> c.groups, idle |-> c.idle]
  BY DEF HasFields
<1>2. Models(c) = Models(b) /\ Adapters(c) = Adapters(b)
  BY <1>1 DEF Models, Adapters
<1>3. HasFields(c)
  BY <1>1, <1>2 DEF HasFields
<1>4. Loadable(c) <=> Loadable(b)
  BY <1>1, <1>2 DEF Loadable
<1> QED BY <1>1, <1>3, <1>4

(* A content has the fields. *)
LEMMA ContentFields ==
  ASSUME NEW c, IsContent(c)
  PROVE  HasFields(c)
BY DEF IsContent, HasFields

(* A new idle timeout changes nothing else. *)
LEMMA IdleChanged ==
  ASSUME NEW c, NEW i, HasFields(c)
  PROVE  [c EXCEPT !.idle = i] = [c EXCEPT !.idle = [c EXCEPT !.idle = i].idle]
BY DEF HasFields

(* Three fields of a content replaced. *)
LEMMA RecordWithout ==
  ASSUME NEW p, NEW q, NEW a, NEW k, NEW g, NEW i, NEW x, NEW y, NEW z
  PROVE  [[parses |-> p, port |-> q, adapterOf |-> a, canonical |-> k, groups |-> g, idle |-> i]
            EXCEPT !.adapterOf = x, !.canonical = y, !.port = z]
         = [parses |-> p, port |-> z, adapterOf |-> x, canonical |-> y, groups |-> g, idle |-> i]
<1> DEFINE r == [parses |-> p, port |-> q, adapterOf |-> a, canonical |-> k, groups |-> g, idle |-> i]
           s == [parses |-> p, port |-> q, adapterOf |-> x, canonical |-> k, groups |-> g, idle |-> i]
           u == [parses |-> p, port |-> q, adapterOf |-> x, canonical |-> y, groups |-> g, idle |-> i]
           v == [parses |-> p, port |-> z, adapterOf |-> x, canonical |-> y, groups |-> g, idle |-> i]
<1>1. [r EXCEPT !.adapterOf = x] = s
  OBVIOUS
<1>2. [s EXCEPT !.canonical = y] = u
  OBVIOUS
<1>3. [u EXCEPT !.port = z] = v
  OBVIOUS
<1> HIDE DEF r, s, u, v
<1>4. [r EXCEPT !.adapterOf = x, !.canonical = y, !.port = z] = v
  BY <1>1, <1>2, <1>3
<1> QED BY <1>4 DEF r, v

(* The fields of a content without some models and adapters. *)
LEMMA WithoutFields ==
  ASSUME NEW c, NEW gone, NEW unused, IsContent(c)
  PROVE  /\ Without(c, gone, unused) =
              [parses |-> c.parses, port |-> Restrict(c.port, Adapters(c) \ unused),
               adapterOf |-> Restrict(c.adapterOf, Models(c) \ gone),
               canonical |-> Restrict(c.canonical, Models(c) \ gone),
               groups |-> c.groups, idle |-> c.idle]
         /\ IsContent(Without(c, gone, unused))
<1> DEFINE w == [parses |-> c.parses, port |-> Restrict(c.port, Adapters(c) \ unused),
                 adapterOf |-> Restrict(c.adapterOf, Models(c) \ gone),
                 canonical |-> Restrict(c.canonical, Models(c) \ gone),
                 groups |-> c.groups, idle |-> c.idle]
<1>1. c = [parses |-> c.parses, port |-> c.port, adapterOf |-> c.adapterOf,
           canonical |-> c.canonical, groups |-> c.groups, idle |-> c.idle]
  BY DEF IsContent
<1>2. Without(c, gone, unused) =
        [c EXCEPT !.adapterOf = Restrict(c.adapterOf, Models(c) \ gone),
                  !.canonical = Restrict(c.canonical, Models(c) \ gone),
                  !.port = Restrict(c.port, Adapters(c) \ unused)]
  BY <1>1 DEF Without
<1>3. Without(c, gone, unused) = w
  BY <1>1, <1>2, RecordWithout
<1>4. IsContent(w)
  BY DEF IsContent, Models, Adapters, Restrict
<1> QED BY <1>3, <1>4

(* A prune leaves a configuration that loads: at least one model stays, its
   adapter stays, and so does the model it is another name of. *)
LEMMA WithoutLoadable ==
  ASSUME RevisionNamesConfig, undisturbed, IsContent(bytes), Loadable(config), NEW gone, NEW unused,
         Removable(gone, unused)
  PROVE  Loadable(Without(bytes, gone, unused))
<1>1. config.adapterOf = bytes.adapterOf /\ config.port = bytes.port
      /\ config.canonical = bytes.canonical /\ Loadable(bytes)
  BY IdleReplaced, ContentFields DEF RevisionNamesConfig
<1>2. gone # Models(bytes)
  <2>1. Models(bytes) \subseteq Model /\ IsFiniteSet(Models(bytes))
    BY ConfigurationAssumption, FS_Subset DEF IsContent
  <2>2. Cardinality(Models(bytes)) \in Nat
    BY <2>1, FS_CardinalityType
  <2>3. Cardinality(gone) < Cardinality(Models(bytes))
    BY <1>1 DEF Removable, Models
  <2> QED BY <2>2, <2>3
<1>3. gone \subseteq Models(bytes)
  BY <1>1 DEF Removable, Models
<1> DEFINE w == Without(bytes, gone, unused)
<1>4. w = [parses |-> bytes.parses, port |-> Restrict(bytes.port, Adapters(bytes) \ unused),
           adapterOf |-> Restrict(bytes.adapterOf, Models(bytes) \ gone),
           canonical |-> Restrict(bytes.canonical, Models(bytes) \ gone),
           groups |-> bytes.groups, idle |-> bytes.idle]
  BY WithoutFields
<1> HIDE DEF w
<1>5. Models(w) = Models(bytes) \ gone /\ Adapters(w) = Adapters(bytes) \ unused
  BY <1>4 DEF Models, Adapters, Restrict
<1>6. w.parses /\ Models(w) # {}
  BY <1>1, <1>2, <1>3, <1>4, <1>5 DEF Loadable
<1>7. Range(w.adapterOf) \subseteq Adapters(w)
  <2>1. ASSUME NEW m \in Models(bytes) \ gone PROVE bytes.adapterOf[m] \in Adapters(bytes) \ unused
    <3>1. bytes.adapterOf[m] \in Adapters(bytes)
      BY <1>1 DEF Loadable, Models, Range
    <3>2. bytes.adapterOf[m] \notin unused
      BY <1>1 DEF Removable, Models
    <3> QED BY <3>1, <3>2
  <2> QED BY <1>4, <1>5, <2>1 DEF Range, Restrict
<1>8. Range(w.canonical) \subseteq Models(w)
  <2>1. ASSUME NEW m \in Models(bytes) \ gone PROVE bytes.canonical[m] \in Models(bytes) \ gone
    <3>1. bytes.canonical[m] \in Models(bytes)
      BY <1>1 DEF Loadable, IsContent, Range
    <3>2. bytes.canonical[m] \notin gone
      BY <1>1 DEF Removable, Models
    <3> QED BY <3>1, <3>2
  <2> QED BY <1>4, <1>5, <2>1 DEF Range, Restrict
<1> QED BY <1>6, <1>7, <1>8 DEF Loadable, w

-----------------------------------------------------------------------------
ReadingInv == ReadingsAgree /\ StartsTogether /\ ContentsSound /\ RevisionNamesConfig

(* The core starts with the configuration it has read. *)
LEMMA ReadingInitially == Init => ReadingInv
<1> SUFFICES ASSUME Init PROVE ReadingInv
  OBVIOUS
<1>1. \A t \in Administrator : pc[t] = "start"
  BY ThreadFacts DEF Init
<1>2. IsContent(First) /\ Loadable(First) /\ HasFields(First)
  BY ConfigurationAssumption, ContentFields
<1>3. ReadingsAgree
  BY <1>1 DEF Init, ReadingsAgree, NoReading
<1>4. PICK i : config = [First EXCEPT !.idle = i]
  BY DEF Init
<1>5. config = [First EXCEPT !.idle = config.idle]
  BY <1>2, <1>4, IdleChanged
<1>6. HasFields(config) /\ Loadable(config)
  BY <1>2, <1>5, IdleReplaced
<1>7. ContentsSound
  BY <1>1, <1>2, <1>6 DEF Init, ContentsSound, Reading
<1>8. StartsTogether /\ RevisionNamesConfig
  BY <1>1, <1>5 DEF Init, StartsTogether, RevisionNamesConfig
<1> QED BY <1>3, <1>7, <1>8 DEF ReadingInv

(* Where somebody is served nobody starts, and the bytes were read. *)
LEMMA NobodyStarts ==
  ASSUME ReadingInv, NEW t \in Administrator, pc[t] # "start"
  PROVE  pc[IdleWorker] # "start" /\ IsContent(bytes)
BY DEF ReadingInv, StartsTogether, ContentsSound

(* A step that leaves the file, what was read of it and what is in force. *)
LEMMA SameReadings ==
  ASSUME ReadingInv, UNCHANGED <<file, bytes, undisturbed, config, reading>>,
         \A t \in Administrator \cup {IdleWorker} : (pc[t] \in Watched \/ pc'[t] \in Watched) => pc'[t] = pc[t]
  PROVE  ReadingInv'
<1>1. \A t \in Administrator : pc'[t] \in Reading => pc'[t] = pc[t]
  BY DEF Watched
<1>2. \A t \in Administrator \cup {IdleWorker} : pc'[t] = "start" <=> pc[t] = "start"
  BY DEF Watched
<1>3. ReadingsAgree'
  BY <1>1 DEF ReadingInv, ReadingsAgree, Reading
<1>4. ContentsSound'
  BY <1>1, <1>2 DEF ReadingInv, ContentsSound, Reading, Loadable, Models, Adapters, HasFields
<1>5. StartsTogether' /\ RevisionNamesConfig'
  BY <1>2 DEF ReadingInv, StartsTogether, RevisionNamesConfig
<1> QED BY <1>3, <1>4, <1>5 DEF ReadingInv

(* Operations on models never reach the readings of a reload. *)
LEMMA OperateLabels ==
  ASSUME NEW t \in Thread, Operate(t)
  PROVE  pc[t] \notin Watched /\ \E label : pc' = [pc EXCEPT ![t] = label] /\ label \notin Watched
<1>0. pc[t] \notin Watched
  BY DEF Operate, Register, FastPath, Announce, Acquire, Load, Unload, Release, Answer, EndRequest, Watched, Reading
<1>1. CASE Release(t)
  <2> DEFINE label == CASE t = IdleWorker /\ pc[t] = "refused" -> "handle"
                       [] t = IdleWorker /\ pc[t] = "done" -> "due"
                       [] op[t] = "request" /\ state[model[t]] = "ready" -> "answer"
                       [] OTHER -> "idle"
  <2>1. pc' = [pc EXCEPT ![t] = label]
    BY <1>1 DEF Release, Goto
  <2>2. label \in {"handle", "due", "answer", "idle"}
    OBVIOUS
  <2> HIDE DEF label
  <2> QED BY <1>0, <2>1, <2>2 DEF Watched, Reading
<1>2. CASE Unload(t)
  <2>1. Goto(t, "done") \/ Goto(t, "refused")
    BY <1>2 DEF Unload
  <2> QED BY <1>0, <2>1 DEF Goto, Watched, Reading
<1>3. CASE Register(t) \/ FastPath(t) \/ Announce(t)
  <2>1. CASE Register(t)
    BY <1>0, <2>1 DEF Register, Goto, Watched, Reading
  <2>2. CASE FastPath(t)
    <3>1. Goto(t, "answer") \/ Goto(t, "idle")
      BY <2>2 DEF FastPath
    <3> QED BY <1>0, <3>1 DEF Goto, Watched, Reading
  <2>3. CASE Announce(t)
    <3>1. Goto(t, "wait") \/ Goto(t, "dead") \/ Goto(t, "idle")
      BY <2>3 DEF Announce
    <3> QED BY <1>0, <3>1 DEF Goto, Watched, Reading
  <2> QED BY <1>3, <2>1, <2>2, <2>3
<1>4. CASE Acquire(t) \/ Load(t) \/ Answer(t) \/ EndRequest(t)
  <2>1. \E label \in {"locked", "done", "relay", "lost", "idle"} : Goto(t, label)
    BY <1>4 DEF Acquire, Load, Answer, EndRequest
  <2> QED BY <1>0, <2>1 DEF Goto, Watched, Reading
<1> QED BY <1>1, <1>2, <1>3, <1>4 DEF Operate

(* The steps that neither read nor write the file leave what was read. *)
LEMMA OtherSteps ==
  ASSUME PruneInv,
         \/ \E t \in Thread : Operate(t)
         \/ \E t \in Operator, m \in Model : Begin(t, m)
         \/ \E t \in Administrator :
              BeginReload(t) \/ Review(t) \/ PruneBegin(t) \/ PruneCheck(t) \/ PruneRecheck(t) \/ SavePolicies(t)
         \/ IdleScan \/ IdleNext \/ IdleHandle \/ IdleRest
         \/ UNCHANGED vars
  PROVE  /\ UNCHANGED <<file, bytes, undisturbed, config, reading>>
         /\ \A t \in Administrator \cup {IdleWorker} : (pc[t] \in Watched \/ pc'[t] \in Watched) => pc'[t] = pc[t]
<1>1. UNCHANGED <<file, bytes, undisturbed, config, reading>>
  BY DEF Operate, Register, FastPath, Announce, Acquire, Load, Unload, Release, Answer, EndRequest,
         Begin, ReadModel, BeginReload, Review, PruneBegin, PruneCheck, PruneRecheck, SavePolicies,
         IdleScan, IdleNext, IdleHandle, IdleRest, vars, fileVars, configVars
<1>2. \/ UNCHANGED pc
      \/ \E t \in Thread : pc[t] \notin Watched /\ \E label : pc' = [pc EXCEPT ![t] = label] /\ label \notin Watched
  <2>1. CASE \E t \in Thread : Operate(t)
    BY <2>1, OperateLabels
  <2>2. CASE \E t \in Operator, m \in Model : Begin(t, m)
    <3>1. PICK t \in Operator, m \in Model : Begin(t, m)
      BY <2>2
    <3>2. pc' = [pc EXCEPT ![t] = "read"] /\ pc[t] = "idle"
      BY <3>1 DEF Begin, ReadModel
    <3>3. t \in Thread /\ "read" \notin Watched /\ "idle" \notin Watched
      BY DEF Watched, Reading, Thread
    <3> QED BY <3>2, <3>3
  <2>3. CASE \E t \in Administrator :
              BeginReload(t) \/ Review(t) \/ PruneBegin(t) \/ PruneCheck(t) \/ PruneRecheck(t) \/ SavePolicies(t)
    <3>1. PICK t \in Administrator :
            /\ pc[t] \in {"idle", "reviewed", "probed", "recheck", "save"}
            /\ \/ \E label \in {"reload", "idle", "probed", "recheck", "replace"} : Goto(t, label)
               \/ pc' = [pc EXCEPT ![t] = "reviewed"]
      BY <2>3 DEF BeginReload, Review, PruneBegin, PruneCheck, PruneRecheck, SavePolicies, GivesUp
    <3> QED BY <3>1, ThreadFacts DEF Goto, Watched, Reading
  <2>4. CASE IdleScan \/ IdleNext \/ IdleHandle \/ IdleRest
    <3>1. \E label \in {"due", "read", "handle", "dead", "scan"} : pc' = [pc EXCEPT ![IdleWorker] = label]
      <4>1. CASE IdleScan
        BY <4>1 DEF IdleScan, Goto
      <4>2. CASE IdleNext
        BY <4>2 DEF IdleNext, ReadModel
      <4>3. CASE IdleHandle
        BY <4>3 DEF IdleHandle, Goto
      <4>4. CASE IdleRest
        BY <4>4 DEF IdleRest
      <4> QED BY <2>4, <4>1, <4>2, <4>3, <4>4
    <3>2. pc[IdleWorker] \notin Watched
      BY <2>4 DEF IdleScan, IdleNext, IdleHandle, IdleRest, Watched, Reading
    <3> QED BY <3>1, <3>2, ThreadFacts DEF Watched, Reading
  <2>5. CASE UNCHANGED vars
    BY <2>5 DEF vars
  <2> QED BY <2>1, <2>2, <2>3, <2>4, <2>5
<1>3. \A t \in Administrator \cup {IdleWorker} : (pc[t] \in Watched \/ pc'[t] \in Watched) => pc'[t] = pc[t]
  BY <1>2, ThreadFacts DEF PruneInv
<1> QED BY <1>1, <1>3

(* Nobody else is between two readings while an administrator keeps the
   condition. *)
LEMMA OneReader ==
  ASSUME PruneInv, NEW t \in Administrator, pc[t] \in Keeping
  PROVE  \A u \in Administrator \ {t} : pc[u] \notin Reading
BY DEF PruneInv, KeepsHolder, Keeping, Reading

(* Every other administrator and the idle worker stay where they are. *)
LEMMA GotoElsewhere ==
  ASSUME PruneInv, NEW t \in Administrator, NEW label, Goto(t, label)
  PROVE  pc'[t] = label /\ \A u \in (Administrator \cup {IdleWorker}) \ {t} : pc'[u] = pc[u]
BY ThreadFacts DEF Goto, PruneInv

(* A step at whose end nobody starts or reads: the rest of the invariant. *)
LEMMA NobodyReads ==
  ASSUME \A u \in Administrator : pc'[u] \notin Reading, pc'[IdleWorker] # "start",
         reading' = NoReading \/ (reading' = reading /\ ReadingInv),
         IsContent(file'), IsContent(bytes'), HasFields(config'), Loadable(config'), RevisionNamesConfig'
  PROVE  ReadingInv'
<1>1. ReadingsAgree'
  <2>1. CASE reading' = NoReading
    BY <2>1 DEF ReadingsAgree, Reading, NoReading
  <2>2. CASE reading' = reading /\ ReadingInv
    BY <2>2 DEF ReadingInv, ReadingsAgree, Reading
  <2> QED BY <2>1, <2>2
<1>2. ContentsSound'
  BY DEF ContentsSound, Reading, IsContent, HasFields, Loadable, Models, Adapters
<1>3. StartsTogether'
  BY DEF StartsTogether
<1> QED BY <1>1, <1>2, <1>3 DEF ReadingInv

(* A refused reload leaves the configuration and forgets its readings. *)
LEMMA RejectedReadings ==
  ASSUME PruneInv, ReadingInv, NEW t \in Administrator, pc[t] \in Reading, Rejected(t),
         UNCHANGED fileVars
  PROVE  ReadingInv'
<1>1. \A u \in Administrator \ {t} : pc[u] \notin Reading
  BY OneReader DEF Keeping, Reading
<1>2. pc'[t] \notin Reading /\ \A u \in (Administrator \cup {IdleWorker}) \ {t} : pc'[u] = pc[u]
  <2>1. Goto(t, "rollback") \/ Goto(t, "idle")
    BY DEF Rejected
  <2> QED BY <2>1, GotoElsewhere DEF Reading
<1>3. IsContent(bytes) /\ pc[IdleWorker] # "start"
  BY NobodyStarts DEF Reading
<1>4. \A u \in Administrator : pc'[u] \notin Reading
  BY <1>1, <1>2
<1>5. pc'[IdleWorker] # "start"
  BY <1>2, <1>3, ThreadFacts
<1>6. reading' = NoReading /\ UNCHANGED <<file, bytes, undisturbed, config>>
  BY DEF Rejected, fileVars, configVars
<1>7. IsContent(file) /\ HasFields(config) /\ Loadable(config) /\ RevisionNamesConfig'
  BY <1>6 DEF ReadingInv, ContentsSound, RevisionNamesConfig
<1> QED BY <1>3, <1>4, <1>5, <1>6, <1>7, NobodyReads

(* What is adopted is what was read, unless the file was edited twice. *)
LEMMA ParsedIsRead ==
  ASSUME ReadingInv, NEW t \in Administrator, pc[t] = "confirm", file = reading.read
  PROVE  reading.edits < 2 => reading.parsed = reading.read
<1>1. /\ reading.edits \in Nat
      /\ reading.edits = 0 => reading.parsed = reading.read
      /\ reading.edits = 1 => reading.parsed = reading.read
  BY DEF ReadingInv, ReadingsAgree
<1>2. reading.edits < 2 => reading.edits = 0 \/ reading.edits = 1
  BY <1>1
<1> QED BY <1>1, <1>2

(* A reload adopts what it parsed, which is what it read unless the file was
   edited twice. *)
LEMMA AdoptReadings ==
  ASSUME PruneInv, ReadingInv, NEW t \in Administrator, pc[t] = "confirm",
         file = reading.read, Adopt(t, reading.parsed), UNCHANGED fileVars
  PROVE  ReadingInv'
<1>1. \A u \in Administrator \ {t} : pc[u] \notin Reading
  BY OneReader DEF Keeping
<1>2. pc[IdleWorker] # "start"
  BY NobodyStarts
<1>3. (\A u \in Administrator : pc'[u] \notin Reading) /\ pc'[IdleWorker] # "start"
  <2>1. PICK label \in {"scan", pc[IdleWorker]}, mine \in {"save", "idle"} :
          pc' = [pc EXCEPT ![t] = mine, ![IdleWorker] = label]
    BY DEF Adopt, Wanted
  <2> QED BY <1>1, <1>2, <2>1, ThreadFacts DEF PruneInv, Reading
<1>4. IsContent(reading.read) /\ IsContent(reading.parsed) /\ Loadable(reading.parsed)
  BY DEF ReadingInv, ContentsSound, Reading
<1> DEFINE c == reading.parsed
<1>5. /\ config' = [c EXCEPT !.idle = IdleAfter(c)]
      /\ bytes' = reading.read /\ reading' = NoReading /\ file' = file
      /\ undisturbed' = (reading.edits < 2)
  BY DEF Adopt, fileVars
<1> HIDE DEF c
<1>6. config' = [c EXCEPT !.idle = config'.idle]
  BY <1>4, <1>5, IdleChanged, ContentFields DEF c
<1>7. HasFields(config') /\ Loadable(config')
  BY <1>4, <1>6, IdleReplaced, ContentFields DEF c
<1>8. undisturbed' => c = reading.read
  BY <1>5, ParsedIsRead DEF c
<1>9. RevisionNamesConfig'
  BY <1>5, <1>6, <1>8 DEF RevisionNamesConfig
<1>10. IsContent(file') /\ IsContent(bytes')
  BY <1>4, <1>5
<1> QED BY <1>3, <1>5, <1>7, <1>9, <1>10, NobodyReads

(* The three readings of reload_config. *)
LEMMA ReloadReadings ==
  ASSUME PruneInv, ReadingInv, NEW t \in Administrator, Reload(t) \/ Parse(t) \/ Confirm(t)
  PROVE  ReadingInv'
<1>1. \A u \in Administrator \ {t} : pc[u] \notin Reading
  BY OneReader DEF Reload, Parse, Confirm, Keeping
<1>2. IsContent(bytes) /\ pc[IdleWorker] # "start"
  BY NobodyStarts DEF Reload, Parse, Confirm
<1>3. ASSUME NEW label, Goto(t, label)
      PROVE  /\ pc'[t] = label /\ \A u \in Administrator \ {t} : pc'[u] = pc[u]
             /\ \A u \in Administrator \ {t} : pc'[u] \notin Reading
             /\ pc'[IdleWorker] # "start"
  BY <1>1, <1>2, <1>3, GotoElsewhere, ThreadFacts
<1>4. ASSUME IsContent(file), HasFields(config), Loadable(config), RevisionNamesConfig,
             UNCHANGED <<file, bytes, undisturbed, config>>
      PROVE  /\ IsContent(file') /\ HasFields(config') /\ Loadable(config') /\ RevisionNamesConfig' /\ IsContent(bytes')
  BY <1>2, <1>4 DEF RevisionNamesConfig
<1>5. CASE Reload(t)
  <2>1. reading' = [read |-> file, parsed |-> None, edits |-> 0] /\ Goto(t, "parse")
        /\ UNCHANGED <<file, bytes, undisturbed, config>>
    BY <1>5 DEF Reload, NoReading, fileVars, configVars
  <2>2. pc'[t] = "parse" /\ (\A u \in Administrator \ {t} : pc'[u] \notin Reading) /\ pc'[IdleWorker] # "start"
    BY <1>3, <2>1
  <2>3. IsContent(file) /\ HasFields(config) /\ Loadable(config) /\ RevisionNamesConfig
    BY DEF ReadingInv, ContentsSound
  <2>4. ReadingsAgree'
    BY <2>1, <2>2 DEF ReadingsAgree, Reading
  <2>5. ContentsSound'
    BY <1>2, <2>1, <2>2, <2>3 DEF ContentsSound, Reading, HasFields, Loadable, Models, Adapters
  <2>6. StartsTogether' /\ RevisionNamesConfig'
    BY <2>1, <2>2, <2>3 DEF StartsTogether, RevisionNamesConfig
  <2> QED BY <2>4, <2>5, <2>6 DEF ReadingInv
<1>6. CASE Parse(t) /\ Loadable(file)
  <2>1. reading' = [reading EXCEPT !.parsed = file] /\ Goto(t, "confirm")
        /\ UNCHANGED <<file, bytes, undisturbed, config>>
    BY <1>6 DEF Parse, fileVars, configVars
  <2>2. pc'[t] = "confirm" /\ (\A u \in Administrator \ {t} : pc'[u] \notin Reading) /\ pc'[IdleWorker] # "start"
    BY <1>3, <2>1
  <2>3. reading' = [read |-> reading.read, parsed |-> file, edits |-> reading.edits]
    BY <2>1 DEF ReadingInv, ReadingsAgree
  <2>4. IsContent(file) /\ HasFields(config) /\ Loadable(config) /\ RevisionNamesConfig /\ IsContent(reading.read)
    BY <1>6 DEF ReadingInv, ContentsSound, Parse, Reading
  <2>5. ReadingsAgree'
    <3>1. /\ reading.edits \in Nat
          /\ reading.edits = 0 => file = reading.read
          /\ reading.edits = 1 => file # reading.read
      BY <1>6 DEF ReadingInv, ReadingsAgree, Parse
    <3> QED BY <2>1, <2>2, <2>3, <3>1 DEF ReadingsAgree, Reading
  <2>6. ContentsSound'
    BY <1>2, <1>6, <2>1, <2>2, <2>3, <2>4 DEF ContentsSound, Reading, HasFields, Loadable, Models, Adapters
  <2>7. StartsTogether' /\ RevisionNamesConfig'
    BY <2>1, <2>2, <2>4 DEF StartsTogether, RevisionNamesConfig
  <2> QED BY <2>5, <2>6, <2>7 DEF ReadingInv
<1>7. CASE Parse(t) /\ ~Loadable(file)
  BY <1>7, RejectedReadings DEF Parse, Reading
<1>8. CASE Confirm(t)
  <2>1. pc[t] = "confirm" /\ UNCHANGED fileVars
    BY <1>8 DEF Confirm
  <2>2. (file = reading.read /\ Adopt(t, reading.parsed)) \/ Rejected(t)
    BY <1>8 DEF Confirm
  <2> QED BY <2>1, <2>2, AdoptReadings, RejectedReadings DEF Reading
<1> QED BY <1>5, <1>6, <1>7, <1>8

(* The two writings of a prune: what is written loads, unless the configuration
   in force and its bytes are two contents. *)
LEMMA WritingReadings ==
  ASSUME PruneInv, ReadingInv, NEW t \in Administrator, PruneReplace(t) \/ Rollback(t)
  PROVE  ReadingInv' /\ (undisturbed => Loadable(file'))
<1>1. \A u \in Administrator \ {t} : pc[u] \notin Reading
  BY OneReader DEF PruneReplace, Rollback, Keeping
<1>2. IsContent(bytes) /\ pc[IdleWorker] # "start"
  BY NobodyStarts DEF PruneReplace, Rollback
<1>3. (\A u \in Administrator : pc'[u] \notin Reading) /\ pc'[IdleWorker] # "start"
  <2>1. Goto(t, "reload") \/ Goto(t, "idle")
    BY DEF PruneReplace, Rollback, GivesUp
  <2> QED BY <1>1, <1>2, <2>1, GotoElsewhere, ThreadFacts DEF Reading
<1>4. HasFields(config) /\ Loadable(config) /\ RevisionNamesConfig
  BY DEF ReadingInv, ContentsSound
<1>5. IsContent(file') /\ (undisturbed => Loadable(file'))
  <2>1. CASE PruneReplace(t)
    <3>1. Checked(t)
      BY <2>1 DEF PruneReplace, PruneInv, StillRemovable
    <3>2. file' = Without(bytes, review[t].gone, review[t].unused)
      BY <2>1 DEF PruneReplace
    <3>3. undisturbed => Loadable(file')
      BY <1>2, <1>4, <3>1, <3>2, WithoutLoadable DEF Checked
    <3> QED BY <1>2, <3>2, <3>3, WithoutFields
  <2>2. CASE Rollback(t)
    <3>1. undisturbed => Loadable(bytes)
      BY <1>2, <1>4, IdleReplaced, ContentFields DEF RevisionNamesConfig
    <3> QED BY <1>2, <2>2, <3>1 DEF Rollback
  <2> QED BY <2>1, <2>2
<1>6. UNCHANGED <<bytes, undisturbed, config, reading>>
  BY DEF PruneReplace, Rollback, configVars
<1>7. HasFields(config') /\ Loadable(config') /\ RevisionNamesConfig' /\ IsContent(bytes')
  BY <1>2, <1>4, <1>6 DEF RevisionNamesConfig
<1> QED BY <1>3, <1>5, <1>6, <1>7, NobodyReads

(* An edit between two readings is counted, and always changes the file. *)
LEMMA EditReadings ==
  ASSUME PruneInv, ReadingInv, Edit
  PROVE  ReadingInv'
<1>1. file' \in Content /\ file' # file /\ UNCHANGED <<bytes, undisturbed, config, pc>>
      /\ reading' = IF \E t \in Thread : pc[t] \in {"start", "parse", "confirm"}
                    THEN [reading EXCEPT !.edits = @ + 1] ELSE reading
  BY DEF Edit, configVars
<1>2. IsContent(file')
  BY <1>1, ConfigurationAssumption
<1>3. reading = [read |-> reading.read, parsed |-> reading.parsed, edits |-> reading.edits] /\ reading.edits \in Nat
  BY DEF ReadingInv, ReadingsAgree
<1>4. CASE \E t \in Thread : pc[t] \in {"start", "parse", "confirm"}
  <2>1. reading' = [read |-> reading.read, parsed |-> reading.parsed, edits |-> reading.edits + 1]
    BY <1>1, <1>3, <1>4
  <2>2. ReadingsAgree'
    BY <1>1, <1>3, <2>1 DEF ReadingInv, ReadingsAgree
  <2>3. ContentsSound'
    BY <1>1, <1>2, <2>1 DEF ReadingInv, ContentsSound, HasFields, Loadable, Models, Adapters
  <2>4. StartsTogether' /\ RevisionNamesConfig'
    BY <1>1, <1>3, <2>1 DEF ReadingInv, StartsTogether, RevisionNamesConfig
  <2> QED BY <2>2, <2>3, <2>4 DEF ReadingInv
<1>5. CASE ~(\E t \in Thread : pc[t] \in {"start", "parse", "confirm"})
  <2>1. reading' = reading
    BY <1>1, <1>5
  <2>2. pc'[IdleWorker] # "start" /\ \A t \in Administrator : pc'[t] \notin Reading
    BY <1>1, <1>5, ThreadFacts DEF Reading
  <2>3. ReadingsAgree'
    BY <1>3, <2>1, <2>2 DEF ReadingsAgree, Reading
  <2>4. ContentsSound'
    BY <1>1, <1>2, <2>1 DEF ReadingInv, ContentsSound, HasFields, Loadable, Models, Adapters
  <2>5. StartsTogether' /\ RevisionNamesConfig'
    BY <1>1, <2>2 DEF ReadingInv, StartsTogether, RevisionNamesConfig
  <2> QED BY <2>3, <2>4, <2>5 DEF ReadingInv
<1> QED BY <1>4, <1>5

(* Another idle timeout in force leaves the rest of the configuration. *)
LEMMA TimeoutChanged ==
  ASSUME NEW c, NEW d, NEW i, HasFields(c), d = [c EXCEPT !.idle = i]
  PROVE  /\ HasFields(d) /\ (Loadable(c) => Loadable(d))
         /\ d.adapterOf = c.adapterOf /\ d.port = c.port /\ d.groups = c.groups
         /\ \A b : c = [b EXCEPT !.idle = c.idle] /\ HasFields(b) => d = [b EXCEPT !.idle = d.idle]
<1>1. d = [c EXCEPT !.idle = d.idle]
  BY IdleChanged
<1>2. ASSUME NEW b, c = [b EXCEPT !.idle = c.idle], HasFields(b)
      PROVE  d = [b EXCEPT !.idle = d.idle]
  BY <1>1, <1>2 DEF HasFields
<1> QED BY <1>1, <1>2, IdleReplaced

(* Saved settings change the idle timeout in force only. *)
LEMMA SettingsReadings ==
  ASSUME PruneInv, ReadingInv, UpdateSettings
  PROVE  ReadingInv'
<1>1. PICK i : config' = [config EXCEPT !.idle = i]
  BY DEF UpdateSettings
<1>2. UNCHANGED <<file, bytes, undisturbed, reading>>
  BY DEF UpdateSettings, fileVars
<1>3. (\A t \in Administrator : pc'[t] = pc[t]) /\ pc[IdleWorker] # "start" /\ pc'[IdleWorker] # "start"
  BY ThreadFacts DEF UpdateSettings, PruneInv, Wanted
<1>4. HasFields(config) /\ Loadable(config) /\ RevisionNamesConfig /\ (undisturbed => HasFields(bytes))
  BY ContentFields DEF ReadingInv, ContentsSound
<1>5. HasFields(config') /\ Loadable(config')
  BY <1>1, <1>4, TimeoutChanged
<1>6. RevisionNamesConfig'
  BY <1>1, <1>2, <1>4, TimeoutChanged DEF RevisionNamesConfig
<1>7. ReadingsAgree'
  BY <1>2, <1>3 DEF ReadingInv, ReadingsAgree
<1>8. ContentsSound'
  BY <1>2, <1>3, <1>5 DEF ReadingInv, ContentsSound, HasFields, Loadable, Models, Adapters
<1>9. StartsTogether'
  BY <1>3 DEF StartsTogether
<1> QED BY <1>6, <1>7, <1>8, <1>9 DEF ReadingInv

(* A restart loads the file as it is ... *)
LEMMA RestartReadings ==
  ASSUME ReadingInv, Restart
  PROVE  ReadingInv'
<1>1. PICK i : config' = [file EXCEPT !.idle = i]
  BY DEF Restart
<1>2. /\ reading' = NoReading /\ file' = file /\ Loadable(file) /\ undisturbed' = FALSE
      /\ \A t \in Administrator : pc'[t] = "start"
  BY ThreadFacts DEF Restart, fileVars
<1>3. IsContent(file) /\ HasFields(file)
  BY ContentFields DEF ReadingInv, ContentsSound
<1>4. config' = [file EXCEPT !.idle = config'.idle]
  BY <1>1, <1>3, IdleChanged
<1>5. HasFields(config') /\ Loadable(config')
  BY <1>2, <1>3, <1>4, IdleReplaced
<1>6. ReadingsAgree'
  BY <1>2 DEF ReadingsAgree, NoReading
<1>7. ContentsSound'
  BY <1>2, <1>3, <1>5 DEF ContentsSound, Reading, HasFields, Loadable, Models, Adapters
<1>8. StartsTogether' /\ RevisionNamesConfig'
  BY <1>2, <1>4 DEF StartsTogether, RevisionNamesConfig
<1> QED BY <1>6, <1>7, <1>8 DEF ReadingInv

(* ... and reads its bytes once more. *)
LEMMA StartReadings ==
  ASSUME PruneInv, ReadingInv, Start
  PROVE  ReadingInv'
<1>1. /\ bytes' = file /\ file' = file /\ config' = config /\ reading' = NoReading
      /\ undisturbed' = (reading.edits = 0) /\ pc[IdleWorker] = "start"
  BY DEF Start, fileVars
<1>2. (\A u \in Administrator : pc'[u] \notin Reading) /\ pc'[IdleWorker] # "start"
  BY ThreadFacts DEF Start, Reading
<1>3. IsContent(file) /\ HasFields(config) /\ Loadable(config)
  BY DEF ReadingInv, ContentsSound
<1>4. RevisionNamesConfig'
  BY <1>1 DEF ReadingInv, StartsTogether, RevisionNamesConfig
<1>5. IsContent(file') /\ IsContent(bytes') /\ HasFields(config') /\ Loadable(config')
  BY <1>1, <1>3
<1> QED BY <1>1, <1>2, <1>4, <1>5, NobodyReads

(* The invariant of readings is inductive, given that of prunes. *)
LEMMA ReadingInvKept == PruneInv /\ ReadingInv /\ [Next]_vars => ReadingInv'
<1> SUFFICES ASSUME PruneInv, ReadingInv, [Next]_vars PROVE ReadingInv'
  OBVIOUS
<1>1. CASE \E t \in Administrator : Reload(t) \/ Parse(t) \/ Confirm(t)
  BY <1>1, ReloadReadings
<1>2. CASE \E t \in Administrator : PruneReplace(t) \/ Rollback(t)
  BY <1>2, WritingReadings
<1>3. CASE Edit
  BY <1>3, EditReadings
<1>4. CASE UpdateSettings
  BY <1>4, SettingsReadings
<1>5. CASE Restart \/ Start
  BY <1>5, RestartReadings, StartReadings
<1>6. CASE
         \/ \E t \in Thread : Operate(t)
         \/ \E t \in Operator, m \in Model : Begin(t, m)
         \/ \E t \in Administrator :
              BeginReload(t) \/ Review(t) \/ PruneBegin(t) \/ PruneCheck(t) \/ PruneRecheck(t) \/ SavePolicies(t)
         \/ IdleScan \/ IdleNext \/ IdleHandle \/ IdleRest
         \/ UNCHANGED vars
  BY <1>6, OtherSteps, SameReadings
<1> QED BY <1>1, <1>2, <1>3, <1>4, <1>5, <1>6 DEF Next, ReloadStep, PruneStep

(* The revision that clients review is that of the configuration in force,
   unless an edit came between the two readings of the start (3332, 985) or two
   between the readings of one reload (1218-1220), until a later reload is
   undisturbed: whoever writes the file once in between makes the third reading
   differ from the first. *)
THEOREM RevisionAlwaysNamesConfig == Spec => []RevisionNamesConfig
<1>1. Init => PruneInv /\ ReadingInv
  BY PruneInitially, ReadingInitially
<1>2. PruneInv /\ ReadingInv /\ [Next]_vars => (PruneInv /\ ReadingInv)'
  BY PruneInvKept, ReadingInvKept
<1>3. ReadingInv => RevisionNamesConfig
  BY DEF ReadingInv
<1> QED BY <1>1, <1>2, <1>3, PTL DEF Spec

(* What the core itself writes is loadable, unless such edits have made the
   configuration in force and its bytes two contents: the file is changed by an
   editor, who leaves every administrator where it was, or by a prune, which
   writes the bytes back or without what may be removed (1338-1363, 1397). *)
THEOREM WritesAlwaysLoadable == Spec => WritesAreLoadable
<1> DEFINE Writes ==
      \A t \in Administrator :
        undisturbed /\ pc[t] \in {"replace", "rollback"} /\ pc'[t] # pc[t] =>
          Loadable(file') \/ file' = file
<1>1. ASSUME PruneInv, ReadingInv, Next PROVE Writes
  <2>1. CASE \E t \in Administrator : PruneReplace(t) \/ Rollback(t)
    <3>1. PICK t \in Administrator : PruneReplace(t) \/ Rollback(t)
      BY <2>1
    <3>2. undisturbed => Loadable(file')
      BY <1>1, <3>1, WritingReadings
    <3> QED BY <3>2
  <2>2. CASE Edit
    BY <2>2 DEF Edit
  <2>3. CASE UpdateSettings \/ Restart \/ Start
    BY <2>3 DEF UpdateSettings, Restart, Start, fileVars
  <2>4. CASE \E t \in Thread : Operate(t)
    BY <2>4 DEF Operate, Register, FastPath, Announce, Acquire, Load, Unload, Release, Answer,
                EndRequest, fileVars
  <2>5. CASE \/ \E t \in Operator, m \in Model : Begin(t, m)
             \/ IdleScan \/ IdleNext \/ IdleHandle \/ IdleRest
    BY <2>5 DEF Begin, IdleScan, IdleNext, IdleHandle, IdleRest, ReadModel, fileVars
  <2>6. CASE \E t \in Administrator :
               \/ ReloadStep(t) \/ Review(t) \/ PruneBegin(t) \/ PruneCheck(t) \/ PruneRecheck(t)
               \/ SavePolicies(t)
    BY <2>6 DEF ReloadStep, BeginReload, Reload, Parse, Confirm, Review, PruneBegin, PruneCheck,
                PruneRecheck, SavePolicies, fileVars
  <2> QED BY <1>1, <2>1, <2>2, <2>3, <2>4, <2>5, <2>6 DEF Next, PruneStep
<1>2. PruneInv /\ ReadingInv /\ [Next]_vars => [Writes]_vars
  BY <1>1
<1>3. Spec => [][Writes]_vars
  BY <1>2, PruneInitially, PruneInvKept, ReadingInitially, ReadingInvKept, PTL DEF Spec
<1> QED BY <1>3 DEF WritesAreLoadable

-----------------------------------------------------------------------------
(* What each kind of step changes of the models, the configuration and the
   settings: most steps change none of them. *)
LEMMA WhatMoves ==
  ASSUME [Next]_vars
  PROVE  \/ UNCHANGED <<modelVars, configVars, settingsVars>>
         \/ \E t \in Thread : Load(t) \/ Unload(t)
         \/ \E t \in Administrator :
              /\ pc[t] = "confirm" /\ file = reading.read /\ Accepts(reading.parsed)
              /\ Adopt(t, reading.parsed) /\ UNCHANGED fileVars
         \/ \E t \in Administrator : SavePolicies(t)
         \/ UpdateSettings \/ Restart \/ Start
<1>1. CASE \E t \in Thread : Operate(t)
  BY <1>1 DEF Operate, Register, FastPath, Announce, Acquire, Release, Answer, EndRequest
<1>2. CASE \/ \E t \in Operator, m \in Model : Begin(t, m)
           \/ IdleScan \/ IdleNext \/ IdleHandle \/ IdleRest \/ Edit
  BY <1>2 DEF Begin, ReadModel, IdleScan, IdleNext, IdleHandle, IdleRest, Edit
<1>3. ASSUME NEW t \in Administrator, ReloadStep(t)
      PROVE  \/ UNCHANGED <<modelVars, configVars, settingsVars>>
             \/ /\ pc[t] = "confirm" /\ file = reading.read /\ Accepts(reading.parsed)
                /\ Adopt(t, reading.parsed) /\ UNCHANGED fileVars
  BY <1>3 DEF ReloadStep, BeginReload, Reload, Parse, Confirm, Rejected
<1>4. CASE \E t \in Administrator :
             Review(t) \/ PruneBegin(t) \/ PruneCheck(t) \/ PruneRecheck(t) \/ PruneReplace(t) \/ Rollback(t)
  BY <1>4 DEF Review, PruneBegin, PruneCheck, PruneRecheck, PruneReplace, Rollback
<1>5. CASE UNCHANGED vars
  BY <1>5 DEF vars
<1> QED BY <1>1, <1>2, <1>3, <1>4, <1>5 DEF Next, PruneStep

(* The configuration in force names what it should. *)
LEMMA ConfigFacts ==
  ASSUME ReadingInv
  PROVE  /\ Models(config) \subseteq Model /\ Adapters(config) \subseteq Adapter /\ config.groups \subseteq Group
         /\ \A m \in Models(config) : config.adapterOf[m] \in Adapters(config)
BY DEF ReadingInv, ContentsSound, HasFields, Loadable, Models, Range

(* With another idle timeout the models, the adapters and the locks are the same. *)
LEMMA SameLocks ==
  ASSUME NEW c, NEW d, c.adapterOf = d.adapterOf, c.port = d.port, c.groups = d.groups
  PROVE  Models(c) = Models(d) /\ Adapters(c) = Adapters(d) /\ Locks(c) = Locks(d)
BY DEF Models, Adapters, Locks

(* Saved settings leave them ... *)
LEMMA UpdatedConfig ==
  ASSUME ReadingInv, UpdateSettings
  PROVE  /\ config'.adapterOf = config.adapterOf /\ config'.port = config.port /\ config'.groups = config.groups
         /\ config'.idle = settings'.idle
<1>1. config' = [config EXCEPT !.idle = settings'.idle]
  BY DEF UpdateSettings
<1>2. HasFields(config)
  BY DEF ReadingInv, ContentsSound
<1> QED BY <1>1, <1>2 DEF HasFields

(* ... and a restart takes those of the file. *)
LEMMA RestartedConfig ==
  ASSUME ReadingInv, Restart
  PROVE  /\ IsContent(file)
         /\ config'.adapterOf = file.adapterOf /\ config'.port = file.port /\ config'.groups = file.groups
<1>1. PICK i : config' = [file EXCEPT !.idle = i]
  BY DEF Restart
<1>2. IsContent(file)
  BY DEF ReadingInv, ContentsSound
<1> QED BY <1>1, <1>2 DEF IsContent

-----------------------------------------------------------------------------
(* Types. *)

(* What threads work on, and the locks they have looked up. *)
JobTyped ==
  /\ op \in [Thread -> {"none", "request", "switch", "unload"}]
  /\ model \in [Thread -> Model \cup {None}]
  /\ via \in [Thread -> Adapter \cup {None}]
  /\ attached \in [Thread -> BOOLEAN]
  /\ keys \in [Thread -> SUBSET Key]
  /\ due \subseteq Model
  /\ holder \in Administrator \cup {None}

(* The models that have an entry are those that are configured, and the locks
   are those of the configuration. *)
ModelTyped ==
  /\ state \in [Model -> {"absent", "unloaded", "ready"}]
  /\ home \in [Model -> Adapter \cup {None}]
  /\ {m \in Model : state[m] # "absent"} = Models(config)
  /\ table = Locks(config)

(* A lock of the table is of an adapter or of a group. *)
LEMMA TableTyped ==
  ASSUME ReadingInv, ModelTyped
  PROVE  table \subseteq Key
BY ConfigFacts DEF ModelTyped, Locks, Key

(* A thread that goes on, or rests. *)
LEMMA GotoTyped ==
  ASSUME JobTyped, NEW t, NEW label, Goto(t, label) \/ UNCHANGED <<jobVars, attached>>
  PROVE  /\ op' \in [Thread -> {"none", "request", "switch", "unload"}]
         /\ model' \in [Thread -> Model \cup {None}]
         /\ via' \in [Thread -> Adapter \cup {None}]
         /\ attached' \in [Thread -> BOOLEAN]
BY DEF JobTyped, Goto, jobVars

(* A model is read from the configuration in force. *)
LEMMA ReadModelTyped ==
  ASSUME JobTyped, ReadingInv, NEW t, NEW what \in {"request", "switch", "unload"}, NEW m, ReadModel(t, what, m),
         due' \subseteq Model
  PROVE  JobTyped'
<1>1. m \in Model /\ config.adapterOf[m] \in Adapter
  BY ConfigFacts DEF ReadModel
<1> QED BY <1>1 DEF JobTyped, ReadModel

(* The work of an operation: it takes locks of the table only. *)
LEMMA OperateTyped ==
  ASSUME JobTyped, ReadingInv, ModelTyped, NEW t \in Thread, Operate(t)
  PROVE  JobTyped'
<1>1. /\ UNCHANGED <<due, holder>>
      /\ \/ UNCHANGED keys
         \/ keys' = [keys EXCEPT ![t] = {}]
         \/ \E wanted \in SUBSET table : keys' = [keys EXCEPT ![t] = wanted]
  <2>1. CASE Announce(t)
    <3>1. \/ UNCHANGED keys
          \/ \E wanted \in SUBSET table : keys' = [keys EXCEPT ![t] = wanted]
      BY <2>1 DEF Announce
    <3> QED BY <2>1, <3>1 DEF Announce
  <2>2. CASE Release(t)
    BY <2>2 DEF Release
  <2>3. CASE Register(t) \/ FastPath(t) \/ Acquire(t) \/ Load(t) \/ Unload(t) \/ Answer(t) \/ EndRequest(t)
    BY <2>3 DEF Register, FastPath, Acquire, Load, Unload, Answer, EndRequest
  <2> QED BY <2>1, <2>2, <2>3 DEF Operate
<1>2. keys' \in [Thread -> SUBSET Key]
  BY <1>1, TableTyped DEF JobTyped
<1>3. CASE Register(t)
  <2>1. \/ \E label : Goto(t, label)
        \/ UNCHANGED jobVars /\ attached' = [attached EXCEPT ![t] = TRUE]
    BY <1>3 DEF Register
  <2>2. CASE \E label : Goto(t, label)
    BY <1>1, <1>2, <2>2, GotoTyped DEF JobTyped
  <2>3. CASE UNCHANGED jobVars /\ attached' = [attached EXCEPT ![t] = TRUE]
    BY <1>1, <1>2, <2>3 DEF JobTyped, jobVars
  <2> QED BY <2>1, <2>2, <2>3
<1>4. CASE ~Register(t)
  <2>1. \E label : Goto(t, label)
    <3>1. CASE Release(t)
      BY <3>1 DEF Release
    <3>2. CASE Unload(t)
      BY <3>2 DEF Unload
    <3>3. CASE FastPath(t) \/ Announce(t) \/ Acquire(t) \/ Load(t) \/ Answer(t) \/ EndRequest(t)
      BY <3>3 DEF FastPath, Announce, Acquire, Load, Answer, EndRequest
    <3> QED BY <1>4, <3>1, <3>2, <3>3 DEF Operate
  <2> QED BY <1>1, <1>2, <2>1, GotoTyped DEF JobTyped
<1> QED BY <1>3, <1>4

(* Reloads, prunes and reviews do the work of no model. *)
LEMMA AdministratorTyped ==
  ASSUME JobTyped, NEW t \in Administrator, ReloadStep(t) \/ PruneStep(t)
  PROVE  JobTyped'
<1>1. holder' \in Administrator \cup {None} /\ UNCHANGED <<keys, due>>
  BY DEF ReloadStep, PruneStep, BeginReload, Reload, Parse, Confirm, Rejected, Adopt, Review, PruneBegin,
         PruneCheck, PruneRecheck, PruneReplace, Rollback, SavePolicies, GivesUp, JobTyped
<1>2. \/ \E label : Goto(t, label) \/ UNCHANGED <<jobVars, attached>>
      \/ \E c : Adopt(t, c)
  BY DEF ReloadStep, PruneStep, BeginReload, Reload, Parse, Confirm, Rejected, Review, PruneBegin,
         PruneCheck, PruneRecheck, PruneReplace, Rollback, SavePolicies, GivesUp
<1>3. CASE \E c : Adopt(t, c)
  BY <1>1, <1>3 DEF Adopt, JobTyped, jobVars
<1> QED BY <1>1, <1>2, <1>3, GotoTyped DEF JobTyped

(* The idle loop goes through models. *)
LEMMA IdleTyped ==
  ASSUME JobTyped, ReadingInv, IdleScan \/ IdleNext \/ IdleHandle \/ IdleRest
  PROVE  JobTyped'
<1>1. CASE IdleScan
  <2>1. due' \subseteq Model /\ UNCHANGED <<keys, holder>>
    BY <1>1, ConfigFacts DEF IdleScan
  <2> QED BY <1>1, <2>1, GotoTyped DEF IdleScan, JobTyped
<1>2. CASE IdleNext
  <2>1. PICK m \in due :
          /\ due' = due \ {m}
          /\ IF m \in Models(config)
             THEN ReadModel(IdleWorker, "unload", m)
             ELSE /\ model' = [model EXCEPT ![IdleWorker] = m]
                  /\ UNCHANGED <<op, via, attached, keys, holder>>
    BY <1>2 DEF IdleNext
  <2>2. due' \subseteq Model /\ m \in Model
    BY <2>1 DEF JobTyped
  <2>3. CASE m \in Models(config)
    BY <2>1, <2>2, <2>3, ReadModelTyped
  <2>4. CASE m \notin Models(config)
    BY <2>1, <2>2, <2>4 DEF JobTyped
  <2> QED BY <2>3, <2>4
<1>3. CASE IdleHandle
  <2>1. UNCHANGED <<keys, due, holder>> /\ \E label : Goto(IdleWorker, label)
    BY <1>3 DEF IdleHandle
  <2> QED BY <2>1, GotoTyped DEF JobTyped
<1>4. CASE IdleRest
  BY <1>4 DEF IdleRest, JobTyped
<1> QED BY <1>1, <1>2, <1>3, <1>4

(* No step takes a job out of its type. *)
LEMMA JobsStayTyped == JobTyped /\ ReadingInv /\ ModelTyped /\ [Next]_vars => JobTyped'
<1> SUFFICES ASSUME JobTyped, ReadingInv, ModelTyped, [Next]_vars PROVE JobTyped'
  OBVIOUS
<1>1. CASE \E t \in Operator, m \in Model : Begin(t, m)
  <2>1. PICK t \in Operator, m \in Model : Begin(t, m)
    BY <1>1
  <2>2. PICK what \in {"request", "switch", "unload"} : ReadModel(t, what, m)
    BY <2>1 DEF Begin
  <2>3. due' \subseteq Model
    BY <2>1 DEF Begin, JobTyped
  <2> QED BY <2>2, <2>3, ReadModelTyped
<1>2. CASE UpdateSettings \/ Edit \/ UNCHANGED vars
  BY <1>2 DEF UpdateSettings, Edit, vars, jobVars, JobTyped
<1>3. CASE Restart
  BY <1>3 DEF Restart, JobTyped
<1>4. CASE Start
  BY <1>4 DEF Start, JobTyped, jobVars
<1> QED BY <1>1, <1>2, <1>3, <1>4, OperateTyped, AdministratorTyped, IdleTyped DEF Next

-----------------------------------------------------------------------------
(* The models and their servers. *)

(* A load and an unload leave an entry for exactly the configured models. *)
LEMMA LoadTyped ==
  ASSUME ModelTyped, ReadingInv, NEW t \in Thread, via[t] \in Adapter \cup {None}, Load(t) \/ Unload(t)
  PROVE  ModelTyped'
<1>1. UNCHANGED configVars
  BY DEF Load, Unload
<1>2. Models(config)' = Models(config) /\ table' = table /\ Locks(config)' = Locks(config)
  BY <1>1 DEF configVars, Models, Locks, Adapters
<1>3. CASE Load(t)
  <2> DEFINE out == Evicted(model[t], via[t])
             evict == [n \in Model |-> IF n \in out THEN "unloaded" ELSE state[n]]
             nowhere == [n \in Model |-> IF n \in out THEN None ELSE home[n]]
  <2>1. \A n \in out : n \in Models(config) /\ state[n] = "ready"
    BY DEF Evicted
  <2>2. \/ UNCHANGED modelVars
        \/ home' = nowhere /\ state' = evict
        \/ /\ model[t] \in Models(config) /\ home' = [nowhere EXCEPT ![model[t]] = via[t]]
           /\ state' = evict \/ state' = [evict EXCEPT ![model[t]] = "ready"]
    BY <1>3 DEF Load
  <2> HIDE DEF out
  <2>3. /\ evict \in [Model -> {"absent", "unloaded", "ready"}]
        /\ nowhere \in [Model -> Adapter \cup {None}]
        /\ \A n \in Model : evict[n] = "absent" <=> state[n] = "absent"
    BY <2>1 DEF ModelTyped
  <2> HIDE DEF evict, nowhere
  <2>4. /\ state' \in [Model -> {"absent", "unloaded", "ready"}]
        /\ home' \in [Model -> Adapter \cup {None}]
        /\ \A n \in Model : state'[n] = "absent" <=> state[n] = "absent"
    BY <2>2, <2>3 DEF ModelTyped, modelVars
  <2> QED BY <1>2, <2>4 DEF ModelTyped
<1>4. CASE Unload(t)
  <2>1. /\ state' \in [Model -> {"absent", "unloaded", "ready"}]
        /\ home' \in [Model -> Adapter \cup {None}]
        /\ \A n \in Model : state'[n] = "absent" <=> state[n] = "absent"
    BY <1>4 DEF Unload, ModelTyped, modelVars
  <2> QED BY <1>2, <2>1 DEF ModelTyped
<1> QED BY <1>3, <1>4

(* The configuration and the models after a reload. *)
LEMMA AdoptFacts ==
  ASSUME PruneInv, ReadingInv, NEW t \in Administrator, pc[t] = "confirm", file = reading.read,
         Adopt(t, reading.parsed)
  PROVE  /\ IsContent(reading.parsed) /\ Loadable(reading.parsed)
         /\ table' = Locks(reading.parsed) /\ state' = Carried(reading.parsed)
         /\ Models(config)' = Models(reading.parsed) /\ Adapters(config)' = Adapters(reading.parsed)
         /\ Locks(config)' = Locks(reading.parsed)
         /\ config'.adapterOf = reading.parsed.adapterOf /\ config'.port = reading.parsed.port
         /\ config'.groups = reading.parsed.groups
         /\ UNCHANGED <<home, live>>
<1> DEFINE c == reading.parsed
<1>1. IsContent(c) /\ Loadable(c)
  BY DEF ReadingInv, ContentsSound
<1>2. config' = [c EXCEPT !.idle = IdleAfter(c)]
  BY DEF Adopt
<1> HIDE DEF c
<1>3. /\ config'.adapterOf = c.adapterOf /\ config'.port = c.port
      /\ config'.groups = c.groups
  BY <1>1, <1>2 DEF IsContent
<1>4. Models(config)' = Models(c) /\ Adapters(config)' = Adapters(c) /\ Locks(config)' = Locks(c)
  BY <1>3 DEF Models, Adapters, Locks
<1>5. table' = Locks(c) /\ state' = Carried(c) /\ UNCHANGED <<home, live>>
  BY DEF Adopt, c
<1> QED BY <1>1, <1>3, <1>4, <1>5 DEF c

(* So do the reloads, and the other steps change no entry. *)
LEMMA ModelsStayTyped ==
  PruneInv /\ ReadingInv /\ JobTyped /\ ModelTyped /\ [Next]_vars => ModelTyped'
<1> SUFFICES ASSUME PruneInv, ReadingInv, JobTyped, ModelTyped, [Next]_vars PROVE ModelTyped'
  OBVIOUS
<1>1. CASE UNCHANGED <<modelVars, configVars, settingsVars>> \/ (\E t \in Administrator : SavePolicies(t)) \/ Start
  <2>1. UNCHANGED <<modelVars, config, table>>
    BY <1>1 DEF SavePolicies, Start, configVars
  <2> QED BY <2>1 DEF ModelTyped, modelVars, Models, Locks, Adapters
<1>2. CASE \E t \in Thread : Load(t) \/ Unload(t)
  BY <1>2, LoadTyped DEF JobTyped
<1>3. ASSUME NEW t \in Administrator, pc[t] = "confirm", file = reading.read, Adopt(t, reading.parsed)
      PROVE  ModelTyped'
  <2>1. /\ table' = Locks(config)' /\ state' = Carried(reading.parsed)
        /\ Models(config)' = Models(reading.parsed) /\ IsContent(reading.parsed) /\ home' = home
    BY <1>3, AdoptFacts
  <2>2. Models(reading.parsed) \subseteq Model
    BY <2>1 DEF IsContent
  <2> QED BY <2>1, <2>2 DEF ModelTyped, Carried
<1>4. CASE UpdateSettings
  <2>1. UNCHANGED <<modelVars, table>>
    BY <1>4 DEF UpdateSettings
  <2>2. Models(config)' = Models(config) /\ Locks(config)' = Locks(config)
    BY <1>4, UpdatedConfig DEF Models, Locks, Adapters
  <2> QED BY <2>1, <2>2 DEF ModelTyped, modelVars
<1>5. CASE Restart
  <2>1. table' = Locks(file) /\ home' = [m \in Model |-> None]
        /\ state' = [m \in Model |-> IF m \in Models(file) THEN "unloaded" ELSE "absent"]
    BY <1>5 DEF Restart
  <2>2. Models(config)' = Models(file) /\ Locks(config)' = Locks(file) /\ IsContent(file)
    BY <1>5, RestartedConfig DEF Models, Locks, Adapters
  <2>3. Models(file) \subseteq Model
    BY <2>2 DEF IsContent
  <2> QED BY <2>1, <2>2, <2>3 DEF ModelTyped
<1> QED BY <1>1, <1>2, <1>3, <1>4, <1>5, WhatMoves

(* The invariant of the types. *)
TypedInv == PruneInv /\ ReadingInv /\ JobTyped /\ ModelTyped

(* The invariant behind the types: at the start ... *)
LEMMA TypedInitially == Init => TypedInv
<1> SUFFICES ASSUME Init PROVE TypedInv
  OBVIOUS
<1>1. JobTyped
  BY DEF Init, JobTyped
<1>2. ReadingInv
  BY ReadingInitially
<1>3. PICK i : config = [First EXCEPT !.idle = i]
  BY DEF Init
<1>4. IsContent(First)
  BY ConfigurationAssumption
<1>5. config.adapterOf = First.adapterOf /\ config.port = First.port /\ config.groups = First.groups
  BY <1>3, <1>4 DEF IsContent
<1>6. Models(config) = Models(First) /\ Models(First) \subseteq Model /\ Locks(config) = Locks(First)
  BY <1>4, <1>5, SameLocks DEF IsContent
<1>7. ModelTyped
  BY <1>6 DEF Init, ModelTyped
<1> QED BY <1>1, <1>2, <1>7, PruneInitially DEF TypedInv

(* ... and after every step. *)
LEMMA TypedInvKept == TypedInv /\ [Next]_vars => TypedInv'
BY PruneInvKept, ReadingInvKept, JobsStayTyped, ModelsStayTyped DEF TypedInv

(* Every variable keeps its type, for any contents and settings; in particular
   the configuration in force is one that load_config accepts (1219, 3332),
   exactly its models have an entry (1247-1253), and no thread looks up a lock
   that is of no adapter and of no group. *)
THEOREM ConfigurationAlwaysTyped == Spec => []TypeOK
<1>1. TypedInv => TypeOK
  <2>1. ASSUME TypedInv PROVE TypeOK
    <3>1. Loadable(config) /\ table \subseteq Key
      BY <2>1, TableTyped DEF TypedInv, ReadingInv, ContentsSound
    <3> QED BY <2>1, <3>1 DEF TypedInv, PruneInv, JobTyped, ModelTyped, TypeOK
  <2> QED BY <2>1
<1> QED BY <1>1, TypedInitially, TypedInvKept, PTL DEF Spec

-----------------------------------------------------------------------------
(* What is loaded stays configured. *)

(* No edit moves a model to another adapter.  Without this an operation that has
   read its model loads it on the adapter it read, see the README. *)
SteadyAdapters ==
  \A c, d \in Content : \A m \in Models(c) \cap Models(d) : c.adapterOf[m] = d.adapterOf[m]

(* Some content, perhaps an earlier one, has the model on the adapter. *)
Placed(m, a) == \E c \in Content : m \in Models(c) /\ c.adapterOf[m] = a

(* The labels at which a thread still needs the adapter that it has read. *)
Working == {"read", "registered", "wait", "locked"}

AllPlaced(c) == \A m \in Models(c) : Placed(m, c.adapterOf[m])

PlacedInv ==
  /\ AllPlaced(file) /\ AllPlaced(config)
  /\ \A t \in Administrator : pc[t] # "start" => AllPlaced(bytes)
  /\ \A t \in Administrator : pc[t] = "confirm" => AllPlaced(reading.parsed)
  /\ \A t \in Thread : pc[t] \in Working => Placed(model[t], via[t])

LoadedInv == DOMAIN live = Adapter /\ PlacedInv /\ LoadedStaysConfigured

(* With steady adapters a model has one adapter. *)
LEMMA PlacedOnce ==
  ASSUME SteadyAdapters, NEW m, NEW a, NEW b, Placed(m, a), Placed(m, b)
  PROVE  a = b
BY DEF SteadyAdapters, Placed

(* What a prune writes places its models as the reviewed content does. *)
LEMMA PrunedPlaced ==
  ASSUME NEW b, IsContent(b), AllPlaced(b), NEW gone, NEW unused
  PROVE  AllPlaced(Without(b, gone, unused))
<1> DEFINE w == Without(b, gone, unused)
<1>1. w = [parses |-> b.parses, port |-> Restrict(b.port, Adapters(b) \ unused),
           adapterOf |-> Restrict(b.adapterOf, Models(b) \ gone),
           canonical |-> Restrict(b.canonical, Models(b) \ gone),
           groups |-> b.groups, idle |-> b.idle]
  BY WithoutFields
<1> HIDE DEF w
<1>2. w.adapterOf = Restrict(b.adapterOf, Models(b) \ gone)
  BY <1>1
<1>3. \A m \in Models(w) : m \in Models(b) /\ w.adapterOf[m] = b.adapterOf[m]
  BY <1>2 DEF Models, Restrict
<1>4. AllPlaced(w)
  BY <1>3 DEF AllPlaced
<1> QED BY <1>4 DEF w

(* Contents that agree on the adapters place the same. *)
LEMMA SamePlaced ==
  ASSUME NEW c, NEW d, AllPlaced(c), d.adapterOf = c.adapterOf
  PROVE  AllPlaced(d)
BY DEF AllPlaced, Models

(* Whatever is read, written or adopted places its models as some content does. *)
LEMMA ContentsPlaced ==
  ASSUME TypedInv, PlacedInv, [Next]_vars
  PROVE  /\ AllPlaced(file') /\ AllPlaced(config')
         /\ \A t \in Administrator : pc'[t] # "start" => AllPlaced(bytes')
         /\ \A t \in Administrator : pc'[t] = "confirm" => AllPlaced(reading'.parsed)
<1> USE DEF TypedInv
<1>1. /\ AllPlaced(file) /\ AllPlaced(config)
      /\ \A t \in Administrator : pc[t] # "start" => AllPlaced(bytes)
      /\ \A t \in Administrator : pc[t] = "confirm" => AllPlaced(reading.parsed)
  BY DEF PlacedInv
<1>2. ASSUME NEW t \in Administrator, pc[t] \in Keeping, NEW label, Goto(t, label), label # "confirm"
      PROVE  \A u \in Administrator : pc'[u] # "confirm"
  <2>1. \A u \in Administrator \ {t} : pc[u] \notin Reading
    BY <1>2, OneReader
  <2> QED BY <1>2, <2>1, GotoElsewhere DEF Reading
<1>3. ASSUME NEW t \in Administrator, PruneReplace(t) \/ Rollback(t)
      PROVE  AllPlaced(file') /\ AllPlaced(config') /\ AllPlaced(bytes')
             /\ \A u \in Administrator : pc'[u] # "confirm"
  <2>1. AllPlaced(bytes) /\ IsContent(bytes)
    BY <1>1, <1>3, NobodyStarts DEF PruneReplace, Rollback
  <2>2. UNCHANGED <<config, bytes>>
    BY <1>3 DEF PruneReplace, Rollback, configVars
  <2>3. AllPlaced(file')
    BY <1>3, <2>1, PrunedPlaced DEF PruneReplace, Rollback
  <2>4. pc[t] \in Keeping /\ (Goto(t, "reload") \/ Goto(t, "idle"))
    BY <1>3 DEF PruneReplace, Rollback, GivesUp, Keeping
  <2> QED BY <1>1, <1>2, <2>1, <2>2, <2>3, <2>4
<1>4. CASE Edit
  <2>1. file' \in Content /\ UNCHANGED <<bytes, config, pc>> /\ reading'.parsed = reading.parsed
    <3>1. reading = [read |-> reading.read, parsed |-> reading.parsed, edits |-> reading.edits]
      BY DEF ReadingInv, ReadingsAgree
    <3> QED BY <1>4, <3>1 DEF Edit, configVars
  <2>2. AllPlaced(file')
    BY <2>1 DEF AllPlaced, Placed
  <2> QED BY <1>1, <2>1, <2>2
<1>5. ASSUME NEW t \in Administrator, Reload(t)
      PROVE  AllPlaced(file') /\ AllPlaced(config') /\ AllPlaced(bytes')
             /\ \A u \in Administrator : pc'[u] # "confirm"
  <2>1. UNCHANGED <<file, config, bytes>> /\ pc[t] \in Keeping /\ pc[t] # "start" /\ Goto(t, "parse")
    BY <1>5 DEF Reload, fileVars, configVars, Keeping
  <2> QED BY <1>1, <1>2, <2>1
<1>6. ASSUME NEW t \in Administrator, Parse(t)
      PROVE  AllPlaced(file') /\ AllPlaced(config') /\ AllPlaced(bytes')
             /\ \A u \in Administrator : pc'[u] = "confirm" => AllPlaced(reading'.parsed)
  <2>1. UNCHANGED <<file, config, bytes>> /\ pc[t] = "parse" /\ pc[t] \in Keeping
    BY <1>6 DEF Parse, Rejected, fileVars, configVars, Keeping
  <2>2. CASE Loadable(file)
    <3>1. reading' = [reading EXCEPT !.parsed = file]
      BY <1>6, <2>2 DEF Parse
    <3>2. reading = [read |-> reading.read, parsed |-> reading.parsed, edits |-> reading.edits]
      BY DEF ReadingInv, ReadingsAgree
    <3>3. reading'.parsed = file
      BY <3>1, <3>2
    <3> QED BY <1>1, <2>1, <3>3
  <2>3. CASE ~Loadable(file)
    <3>1. Goto(t, "rollback") \/ Goto(t, "idle")
      BY <1>6, <2>3 DEF Parse, Rejected
    <3> QED BY <1>1, <1>2, <2>1, <3>1
  <2> QED BY <2>2, <2>3
<1>7. ASSUME NEW t \in Administrator, Confirm(t)
      PROVE  AllPlaced(file') /\ AllPlaced(config') /\ AllPlaced(bytes')
             /\ \A u \in Administrator : pc'[u] # "confirm"
  <2>1. pc[t] = "confirm" /\ pc[t] \in Keeping /\ file' = file
    BY <1>7 DEF Confirm, fileVars, Keeping
  <2>2. CASE Rejected(t)
    <3>1. UNCHANGED <<config, bytes>> /\ (Goto(t, "rollback") \/ Goto(t, "idle"))
      BY <2>2 DEF Rejected, configVars
    <3> QED BY <1>1, <1>2, <2>1, <3>1
  <2>3. CASE file = reading.read /\ Adopt(t, reading.parsed)
    <3>1. bytes' = file /\ config'.adapterOf = reading.parsed.adapterOf
      BY <2>1, <2>3, AdoptFacts DEF Adopt
    <3>2. \A u \in Administrator : pc'[u] # "confirm"
      <4>1. \A u \in Administrator \ {t} : pc[u] \notin Reading
        BY <2>1, OneReader
      <4>2. PICK label \in {"scan", pc[IdleWorker]}, mine \in {"save", "idle"} : pc' = [pc EXCEPT ![t] = mine, ![IdleWorker] = label]
        BY <2>3 DEF Adopt, Wanted
      <4> QED BY <4>1, <4>2, ThreadFacts DEF PruneInv, Reading
    <3> QED BY <1>1, <2>1, <3>1, <3>2, SamePlaced
  <2> QED BY <1>7, <2>2, <2>3 DEF Confirm
<1>8. CASE UpdateSettings
  <2>1. UNCHANGED <<file, bytes, reading>> /\ \A t \in Administrator : pc'[t] = pc[t]
    BY <1>8, ThreadFacts DEF UpdateSettings, fileVars, PruneInv
  <2>2. AllPlaced(config')
    BY <1>1, <1>8, UpdatedConfig, SamePlaced
  <2> QED BY <1>1, <2>1, <2>2
<1>9. CASE Restart
  <2>1. file' = file /\ config'.adapterOf = file.adapterOf /\ \A t \in Administrator : pc'[t] = "start"
    BY <1>9, RestartedConfig, ThreadFacts DEF Restart, fileVars
  <2> QED BY <1>1, <2>1, SamePlaced
<1>10. CASE Start
  <2>1. file' = file /\ bytes' = file /\ config' = config /\ \A t \in Administrator : pc'[t] = "idle"
    BY <1>10, ThreadFacts DEF Start, fileVars
  <2> QED BY <1>1, <2>1
<1>11. CASE
         \/ \E t \in Thread : Operate(t)
         \/ \E t \in Operator, m \in Model : Begin(t, m)
         \/ \E t \in Administrator :
              BeginReload(t) \/ Review(t) \/ PruneBegin(t) \/ PruneCheck(t) \/ PruneRecheck(t) \/ SavePolicies(t)
         \/ IdleScan \/ IdleNext \/ IdleHandle \/ IdleRest
         \/ UNCHANGED vars
  <2>1. /\ UNCHANGED <<file, bytes, config, reading>>
        /\ \A t \in Administrator : (pc[t] \in Watched \/ pc'[t] \in Watched) => pc'[t] = pc[t]
    BY <1>11, OtherSteps
  <2>2. \A t \in Administrator : (pc'[t] # "start" => pc[t] # "start") /\ (pc'[t] = "confirm" => pc[t] = "confirm")
    BY <2>1 DEF Watched, Reading
  <2> QED BY <1>1, <2>1, <2>2
<1>12. CASE \E t \in Administrator : PruneReplace(t) \/ Rollback(t)
  BY <1>3, <1>12
<1>13. CASE \E t \in Administrator : Reload(t) \/ Parse(t) \/ Confirm(t)
  BY <1>5, <1>6, <1>7, <1>13
<1> QED BY <1>4, <1>8, <1>9, <1>10, <1>11, <1>12, <1>13 DEF Next, ReloadStep, PruneStep

(* A thread at work has read its adapter at some time, or reads it now. *)
LEMMA WorkingRead ==
  ASSUME TypedInv, [Next]_vars, NEW u \in Thread, pc'[u] \in Working
  PROVE  \/ pc[u] \in Working /\ model'[u] = model[u] /\ via'[u] = via[u]
         \/ model'[u] \in Models(config) /\ via'[u] = config.adapterOf[model'[u]]
<1>1. /\ pc \in [Thread -> Label] /\ DOMAIN model = Thread /\ DOMAIN via = Thread
      /\ \A t \in Administrator : t \in Thread /\ t # IdleWorker
      /\ IdleWorker \in Thread
  BY ThreadFacts DEF TypedInv, PruneInv, JobTyped
<1>2. ASSUME NEW t \in Thread, NEW label, Goto(t, label), label \in Working => pc[t] \in Working
      PROVE  pc[u] \in Working /\ model'[u] = model[u] /\ via'[u] = via[u]
  BY <1>1, <1>2 DEF Goto, jobVars, Working
<1>3. CASE \E t \in Thread : Operate(t)
  <2>1. PICK t \in Thread : Operate(t)
    BY <1>3
  <2>2. CASE Register(t) /\ model[t] \in Models(config) /\ pc' = [pc EXCEPT ![t] = "registered"] /\ UNCHANGED jobVars
    BY <1>1, <2>2 DEF Register, jobVars, Working
  <2>3. CASE \E label : Goto(t, label) /\ (label \in Working => pc[t] \in Working)
    BY <1>2, <2>3
  <2>4. CASE Release(t)
    <3> DEFINE label == CASE t = IdleWorker /\ pc[t] = "refused" -> "handle"
                         [] t = IdleWorker /\ pc[t] = "done" -> "due"
                         [] op[t] = "request" /\ state[model[t]] = "ready" -> "answer"
                         [] OTHER -> "idle"
    <3>1. Goto(t, label)
      BY <2>4 DEF Release
    <3>2. label \in {"handle", "due", "answer", "idle"}
      OBVIOUS
    <3> HIDE DEF label
    <3> QED BY <1>2, <3>1, <3>2 DEF Working
  <2>5. CASE Unload(t)
    <3>1. Goto(t, "done") \/ Goto(t, "refused")
      BY <2>5 DEF Unload
    <3> QED BY <1>2, <3>1 DEF Working
  <2>6. CASE Announce(t)
    <3>1. (pc[t] \in Working /\ Goto(t, "wait")) \/ Goto(t, "dead") \/ Goto(t, "idle")
      BY <2>6 DEF Announce, Working
    <3> QED BY <1>2, <3>1 DEF Working
  <2>7. CASE FastPath(t)
    <3>1. Goto(t, "answer") \/ Goto(t, "idle")
      BY <2>7 DEF FastPath
    <3> QED BY <1>2, <3>1 DEF Working
  <2>8. CASE Acquire(t) \/ Load(t) \/ Answer(t) \/ EndRequest(t)
    <3>1. (pc[t] \in Working /\ Goto(t, "locked")) \/ Goto(t, "done") \/ Goto(t, "relay") \/ Goto(t, "lost") \/ Goto(t, "idle")
      BY <2>8 DEF Acquire, Load, Answer, EndRequest, Working
    <3> QED BY <1>2, <3>1 DEF Working
  <2>9. CASE Register(t) /\ Goto(t, "idle")
    BY <1>2, <2>9 DEF Working
  <2> QED BY <2>1, <2>2, <2>4, <2>5, <2>6, <2>7, <2>8, <2>9 DEF Operate, Register
<1>4. ASSUME NEW t \in Thread, NEW what, NEW m, ReadModel(t, what, m)
      PROVE  \/ pc[u] \in Working /\ model'[u] = model[u] /\ via'[u] = via[u]
             \/ model'[u] \in Models(config) /\ via'[u] = config.adapterOf[model'[u]]
  BY <1>1, <1>4 DEF ReadModel, Working
<1>5. CASE \E t \in Operator, m \in Model : Begin(t, m)
  BY <1>4, <1>5 DEF Begin, Thread
<1>6. CASE \E t \in Administrator : ReloadStep(t) \/ PruneStep(t)
  <2>1. PICK t \in Administrator : ReloadStep(t) \/ PruneStep(t)
    BY <1>6
  <2>2. \/ \E label : Goto(t, label) /\ label \notin Working
        \/ pc' = [pc EXCEPT ![t] = "reviewed"] /\ UNCHANGED jobVars
        \/ \E c : Adopt(t, c)
    <3>1. CASE ReloadStep(t)
      BY <3>1 DEF ReloadStep, BeginReload, Reload, Parse, Confirm, Rejected, Working
    <3>2. CASE PruneStep(t)
      BY <3>2 DEF PruneStep, Review, PruneBegin, PruneCheck, PruneRecheck, PruneReplace, Rollback, SavePolicies,
                  GivesUp, Working
    <3> QED BY <2>1, <3>1, <3>2
  <2>3. CASE \E c : Adopt(t, c)
    <3>1. PICK mine \in {"save", "idle"}, worker \in {"scan", pc[IdleWorker]} :
            pc' = [pc EXCEPT ![t] = mine, ![IdleWorker] = worker]
      BY <2>3 DEF Adopt, Wanted
    <3>2. UNCHANGED jobVars
      BY <2>3 DEF Adopt
    <3> QED BY <1>1, <3>1, <3>2 DEF jobVars, Working
  <2>4. CASE pc' = [pc EXCEPT ![t] = "reviewed"] /\ UNCHANGED jobVars
    BY <1>1, <2>4 DEF jobVars, Working
  <2> QED BY <1>1, <1>2, <2>2, <2>3, <2>4
<1>7. CASE IdleScan \/ IdleNext \/ IdleHandle \/ IdleRest
  <2>1. CASE IdleScan
    BY <1>1, <1>2, <2>1 DEF IdleScan, Working
  <2>2. CASE IdleHandle
    <3>1. Goto(IdleWorker, "dead") \/ Goto(IdleWorker, "due")
      BY <2>2 DEF IdleHandle
    <3> QED BY <1>1, <1>2, <3>1 DEF Working
  <2>3. CASE IdleRest
    BY <1>1, <2>3 DEF IdleRest, Working
  <2>4. CASE IdleNext
    <3>1. PICK m : \/ ReadModel(IdleWorker, "unload", m)
                   \/ /\ model' = [model EXCEPT ![IdleWorker] = m]
                      /\ pc' = [pc EXCEPT ![IdleWorker] = "handle"] /\ via' = via
      BY <2>4 DEF IdleNext
    <3> QED BY <1>1, <1>4, <3>1 DEF Working
  <2> QED BY <1>7, <2>1, <2>2, <2>3, <2>4
<1>8. CASE UpdateSettings
  <2>1. PICK worker \in {"scan", pc[IdleWorker]} : pc' = [pc EXCEPT ![IdleWorker] = worker]
    BY <1>8 DEF UpdateSettings, Wanted
  <2> QED BY <1>1, <1>8, <2>1 DEF UpdateSettings, jobVars, Working
<1>9. CASE Restart \/ Start
  BY <1>9 DEF Restart, Start, Working
<1>10. CASE Edit \/ UNCHANGED vars
  BY <1>10 DEF Edit, vars, jobVars
<1> QED BY <1>3, <1>5, <1>6, <1>7, <1>8, <1>9, <1>10 DEF Next

(* Where a thread works its model was placed by some content, and still is. *)
LEMMA PlacedKept ==
  ASSUME TypedInv, PlacedInv, [Next]_vars
  PROVE  PlacedInv'
<1>1. \A m \in Models(config) : Placed(m, config.adapterOf[m])
  BY DEF PlacedInv, AllPlaced
<1>2. ASSUME NEW t \in Thread, pc'[t] \in Working
      PROVE  Placed(model'[t], via'[t])
  <2>1. CASE pc[t] \in Working /\ model'[t] = model[t] /\ via'[t] = via[t]
    BY <2>1 DEF PlacedInv
  <2>2. CASE model'[t] \in Models(config) /\ via'[t] = config.adapterOf[model'[t]]
    BY <1>1, <2>2
  <2> QED BY <1>2, <2>1, <2>2, WorkingRead
<1>3. /\ AllPlaced(file') /\ AllPlaced(config')
      /\ \A t \in Administrator : pc'[t] # "start" => AllPlaced(bytes')
      /\ \A t \in Administrator : pc'[t] = "confirm" => AllPlaced(reading'.parsed)
  BY ContentsPlaced
<1> QED BY <1>2, <1>3 DEF PlacedInv, AllPlaced, Placed, Models

(* A load puts the model on the adapter that the configuration in force names,
   since it is the one the thread has read. *)
LEMMA LoadKeeps ==
  ASSUME SteadyAdapters, TypedInv, LoadedInv, NEW t \in Thread, Load(t)
  PROVE  DOMAIN live' = Adapter /\ LoadedStaysConfigured'
<1> DEFINE m == model[t]
           a == via[t]
           out == Evicted(m, a)
           after == [b \in Adapter |-> IF b \in {config.adapterOf[n] : n \in out} /\ ~InUse(b, out) THEN None ELSE live[b]]
           evict == [n \in Model |-> IF n \in out THEN "unloaded" ELSE state[n]]
           nowhere == [n \in Model |-> IF n \in out THEN None ELSE home[n]]
<1>1. /\ state \in [Model -> {"absent", "unloaded", "ready"}] /\ home \in [Model -> Adapter \cup {None}]
      /\ DOMAIN live = Adapter
  BY DEF TypedInv, ModelTyped, LoadedInv
<1>2. config' = config
  BY DEF Load, configVars
<1>3. (m \in Models(config) /\ a \in Adapters(config)) => a = config.adapterOf[m]
  <2>2. Placed(m, a)
    BY DEF Load, LoadedInv, PlacedInv, Working
  <2>3. m \in Models(config) => Placed(m, config.adapterOf[m])
    BY DEF LoadedInv, PlacedInv, AllPlaced
  <2> QED BY <2>2, <2>3, PlacedOnce
<1>4. \/ UNCHANGED modelVars
      \/ live' = after /\ home' = nowhere /\ state' = evict
      \/ /\ m \in Models(config) /\ a \in Adapters(config)
         /\ live' = [after EXCEPT ![a] = config.port[a]]
         /\ home' = [nowhere EXCEPT ![m] = a]
         /\ state' = evict \/ state' = [evict EXCEPT ![m] = "ready"]
  BY DEF Load
<1>5. /\ DOMAIN after = Adapter /\ \A b \in Adapter : after[b] = None \/ after[b] = live[b]
      /\ DOMAIN evict = Model /\ DOMAIN nowhere = Model
      /\ \A n \in Model : evict[n] = "ready" => state[n] = "ready" /\ nowhere[n] = home[n]
  BY <1>1
<1> HIDE DEF m, a, out, after, evict, nowhere
<1>6. DOMAIN live' = Adapter /\ \A b \in Adapter :
         live'[b] # None => (b \in Adapters(config) /\ live'[b] = config.port[b])
  BY <1>1, <1>4, <1>5 DEF LoadedInv, LoadedStaysConfigured, modelVars
<1>7. \A n \in Model : state'[n] = "ready" => (n \in Models(config) /\ home'[n] = config.adapterOf[n])
  BY <1>1, <1>3, <1>4, <1>5 DEF LoadedInv, LoadedStaysConfigured, modelVars
<1> QED BY <1>2, <1>6, <1>7 DEF LoadedStaysConfigured, Models, Adapters

(* An unload frees an adapter, and takes the model it held out of ready. *)
LEMMA UnloadKeeps ==
  ASSUME TypedInv, LoadedInv, NEW t \in Thread, Unload(t)
  PROVE  DOMAIN live' = Adapter /\ LoadedStaysConfigured'
<1>1. /\ state \in [Model -> {"absent", "unloaded", "ready"}] /\ home \in [Model -> Adapter \cup {None}]
      /\ DOMAIN live = Adapter
  BY DEF TypedInv, ModelTyped, LoadedInv
<1>2. config' = config
  BY DEF Unload, configVars
<1>3. /\ DOMAIN live' = Adapter /\ \A b \in Adapter : live'[b] = None \/ live'[b] = live[b]
      /\ \A n \in Model : state'[n] = "ready" => state[n] = "ready" /\ home'[n] = home[n]
  BY <1>1 DEF Unload, modelVars
<1> QED BY <1>2, <1>3 DEF LoadedInv, LoadedStaysConfigured, Models, Adapters

(* A reload is refused if it would orphan what is loaded or runs. *)
LEMMA AdoptKeepsLoaded ==
  ASSUME TypedInv, LoadedInv, NEW t \in Administrator, pc[t] = "confirm", file = reading.read,
         Accepts(reading.parsed), Adopt(t, reading.parsed)
  PROVE  DOMAIN live' = Adapter /\ LoadedStaysConfigured'
<1> DEFINE c == reading.parsed
<1>1. /\ Models(config)' = Models(c) /\ Adapters(config)' = Adapters(c) /\ state' = Carried(c)
      /\ config'.adapterOf = c.adapterOf /\ config'.port = c.port /\ home' = home /\ live' = live
  BY AdoptFacts DEF TypedInv
<1> HIDE DEF c
<1>2. \A m \in Model : state'[m] = "ready" => state[m] = "ready"
  BY <1>1 DEF Carried
<1>3. ASSUME NEW m \in Model, state'[m] = "ready"
      PROVE  m \in Models(c) /\ home[m] = c.adapterOf[m]
  <2>1. m \in Models(config) /\ home[m] = config.adapterOf[m] /\ state[m] = "ready"
    BY <1>2, <1>3 DEF LoadedInv, LoadedStaysConfigured
  <2> QED BY <2>1 DEF Accepts, c
<1>4. ASSUME NEW a \in Adapter, live[a] # None
      PROVE  a \in Adapters(c) /\ live[a] = c.port[a]
  <2>1. a \in Adapters(config) /\ live[a] = config.port[a]
    BY <1>4 DEF LoadedInv, LoadedStaysConfigured
  <2> QED BY <1>4, <2>1 DEF Accepts, c
<1> QED BY <1>1, <1>3, <1>4 DEF LoadedInv, LoadedStaysConfigured

(* The invariant behind LoadedStaysConfigured after a step ... *)
LEMMA LoadedInvKept ==
  ASSUME SteadyAdapters, TypedInv, LoadedInv, [Next]_vars
  PROVE  LoadedInv'
<1>1. PlacedInv'
  BY PlacedKept DEF LoadedInv
<1>2. CASE UNCHANGED <<modelVars, configVars, settingsVars>> \/ (\E t \in Administrator : SavePolicies(t)) \/ Start
  <2>1. UNCHANGED <<modelVars, config>>
    BY <1>2 DEF SavePolicies, Start, configVars
  <2> QED BY <1>1, <2>1 DEF LoadedInv, LoadedStaysConfigured, modelVars, Models, Adapters
<1>3. CASE UpdateSettings
  <2>1. UNCHANGED modelVars
    BY <1>3 DEF UpdateSettings
  <2>2. config'.adapterOf = config.adapterOf /\ config'.port = config.port
    BY <1>3, UpdatedConfig DEF TypedInv
  <2> QED BY <1>1, <2>1, <2>2 DEF LoadedInv, LoadedStaysConfigured, modelVars, Models, Adapters
<1>4. CASE Restart
  BY <1>1, <1>4 DEF Restart, LoadedInv, LoadedStaysConfigured
<1>5. CASE \E t \in Thread : Load(t) \/ Unload(t)
  BY <1>1, <1>5, LoadKeeps, UnloadKeeps DEF LoadedInv
<1> QED BY <1>1, <1>2, <1>3, <1>4, <1>5, WhatMoves, AdoptKeepsLoaded DEF LoadedInv

(* ... and at the start. *)
LEMMA LoadedInitially == Init => LoadedInv
<1> SUFFICES ASSUME Init PROVE LoadedInv
  OBVIOUS
<1>1. DOMAIN live = Adapter /\ LoadedStaysConfigured
  BY DEF Init, LoadedStaysConfigured
<1>2. AllPlaced(First) /\ \A t \in Administrator : pc[t] = "start"
  BY ConfigurationAssumption, ThreadFacts DEF Init, AllPlaced, Placed
<1>3. AllPlaced(config)
  <2>1. PICK i : config = [First EXCEPT !.idle = i]
    BY DEF Init
  <2>2. config.adapterOf = First.adapterOf
    BY <2>1, ConfigurationAssumption DEF IsContent
  <2> QED BY <1>2, <2>2, SamePlaced
<1>4. PlacedInv
  BY <1>2, <1>3 DEF Init, PlacedInv, Working
<1> QED BY <1>1, <1>4 DEF LoadedInv

(* A reload never orphans what is loaded: a ready model is configured on the
   adapter that holds it, and a process as it was started, whatever operations
   had read before the reload; provided that edits leave models on their adapters.
   About the docstring of reload_config (1210-1211). *)
THEOREM LoadedAlwaysConfigured ==
  ASSUME SteadyAdapters
  PROVE  Spec => []LoadedStaysConfigured
<1>1. TypedInv /\ LoadedInv /\ [Next]_vars => (TypedInv /\ LoadedInv)'
  BY TypedInvKept, LoadedInvKept
<1>2. LoadedInv => LoadedStaysConfigured
  BY DEF LoadedInv
<1> QED BY <1>1, <1>2, TypedInitially, LoadedInitially, PTL DEF Spec

-----------------------------------------------------------------------------
(* Locks and saved policies. *)

(* The policies are of configured models, and name groups that are declared, or
   were until a reload. *)
PolicyInv ==
  /\ settings \in Settings /\ settingsFile \in Settings \cup {None}
  /\ \A m \in DOMAIN settings.groups :
       m \in Models(config) /\ settings.groups[m] \subseteq config.groups \cup dropped

Policies == UNION {[ms -> SUBSET Group] : ms \in SUBSET Model}

(* A policy restricted to some models is a policy. *)
LEMMA PolicyRestricted ==
  ASSUME NEW g \in Policies, NEW S
  PROVE  /\ Restrict(g, DOMAIN g \cap S) \in Policies
         /\ DOMAIN Restrict(g, DOMAIN g \cap S) = DOMAIN g \cap S
         /\ \A m \in DOMAIN g \cap S : Restrict(g, DOMAIN g \cap S)[m] = g[m]
<1>1. PICK ms \in SUBSET Model : g \in [ms -> SUBSET Group]
  BY DEF Policies
<1>2. ms \cap S \in SUBSET Model /\ DOMAIN g = ms
  BY <1>1
<1>3. Restrict(g, DOMAIN g \cap S) \in [ms \cap S -> SUBSET Group]
  BY <1>1, <1>2 DEF Restrict
<1>4. Restrict(g, DOMAIN g \cap S) \in Policies
  BY <1>2, <1>3 DEF Policies
<1> QED BY <1>2, <1>4 DEF Restrict

(* The fields of settings. *)
LEMMA SettingsFields ==
  ASSUME NEW s \in Settings
  PROVE  /\ s.groups \in Policies /\ s.idle \in BOOLEAN /\ s.smart \in BOOLEAN
         /\ s = [groups |-> s.groups, idle |-> s.idle, smart |-> s.smart]
         /\ \A g \in Policies : [s EXCEPT !.groups = g] = [groups |-> g, idle |-> s.idle, smart |-> s.smart]
BY DEF Settings, Policies

(* Settings made of their fields. *)
LEMMA SettingsMade ==
  ASSUME NEW g \in Policies, NEW i \in BOOLEAN, NEW b \in BOOLEAN
  PROVE  [groups |-> g, idle |-> i, smart |-> b] \in Settings
BY DEF Settings, Policies

(* The groups a policy names. *)
LEMMA GroupsOf ==
  ASSUME NEW g \in Policies, NEW G
  PROVE  UNION Range(g) \subseteq G <=> \A m \in DOMAIN g : g[m] \subseteq G
BY DEF Range

(* What a start takes from the settings file. *)
LEMMA LoadedSettings ==
  ASSUME NEW saved \in Settings \cup {None}, NEW c, IsContent(c)
  PROVE  LET s == LoadSettings(saved, c) IN
         /\ s \in Settings
         /\ \A m \in DOMAIN s.groups : m \in Models(c) /\ s.groups[m] \subseteq c.groups
         /\ saved = None => DOMAIN s.groups = {} /\ s.smart = FALSE /\ s.idle = c.idle
         /\ saved # None /\ Usable(saved, c) =>
              /\ s.smart = saved.smart /\ s.idle = saved.idle
              /\ DOMAIN s.groups = DOMAIN saved.groups \cap Models(c)
              /\ \A m \in DOMAIN s.groups : s.groups[m] = saved.groups[m]
<1> DEFINE empty == [m \in {} |-> {}]
           defaults == [groups |-> empty, idle |-> c.idle, smart |-> FALSE]
<1>1. empty \in [{} -> SUBSET Group]
  OBVIOUS
<1>2. empty \in Policies /\ DOMAIN empty = {}
  BY <1>1 DEF Policies
<1> HIDE DEF empty
<1>3. defaults \in Settings
  BY <1>2, SettingsMade DEF IsContent
<1>4. CASE saved = None
  <2>1. LoadSettings(saved, c) = defaults
    BY <1>4 DEF LoadSettings, empty
  <2> QED BY <1>2, <1>3, <1>4, <2>1
<1>5. CASE saved # None
  <2> DEFINE kept == Restrict(saved.groups, DOMAIN saved.groups \cap Models(c))
             known == [groups |-> kept, idle |-> saved.idle, smart |-> saved.smart]
  <2>1. saved \in Settings
    BY <1>5
  <2>2. /\ saved.groups \in Policies /\ saved.idle \in BOOLEAN /\ saved.smart \in BOOLEAN
        /\ \A g \in Policies : [saved EXCEPT !.groups = g] = [groups |-> g, idle |-> saved.idle, smart |-> saved.smart]
    BY <2>1, SettingsFields
  <2>3. /\ kept \in Policies /\ DOMAIN kept = DOMAIN saved.groups \cap Models(c)
        /\ \A m \in DOMAIN kept : kept[m] = saved.groups[m]
    BY <2>2, PolicyRestricted
  <2>4. [saved EXCEPT !.groups = kept] = known
    BY <2>2, <2>3
  <2>5. Known(saved, c) = known
    BY <2>4 DEF Known
  <2>6. Usable(saved, c) <=> UNION Range(kept) \subseteq c.groups
    <3>1. Known(saved, c).groups = kept
      BY <2>5
    <3> HIDE DEF kept, known
    <3> QED BY <1>5, <3>1 DEF Usable
  <2>7. LoadSettings(saved, c) = IF Usable(saved, c) THEN known ELSE defaults
    BY <1>5, <2>5 DEF LoadSettings, empty
  <2> HIDE DEF kept
  <2>8. known \in Settings
    BY <2>2, <2>3, SettingsMade
  <2>9. UNION Range(kept) \subseteq c.groups <=> \A m \in DOMAIN kept : kept[m] \subseteq c.groups
    BY <2>3, GroupsOf
  <2>10. CASE Usable(saved, c)
    <3>1. LoadSettings(saved, c) = known
      BY <2>7, <2>10
    <3>2. \A m \in DOMAIN kept : m \in Models(c) /\ kept[m] \subseteq c.groups
      BY <2>3, <2>6, <2>9, <2>10
    <3> QED BY <1>5, <2>3, <2>8, <3>1, <3>2
  <2>11. CASE ~Usable(saved, c)
    <3>1. LoadSettings(saved, c) = defaults /\ DOMAIN defaults.groups = {}
      BY <1>2, <2>7, <2>11
    <3> HIDE DEF defaults
    <3> QED BY <1>3, <1>5, <2>11, <3>1
  <2> QED BY <2>10, <2>11
<1> QED BY <1>4, <1>5

(* The settings after a reload: those of the remaining models. *)
LEMMA AdoptedSettings ==
  ASSUME TypedInv, PolicyInv, NEW t \in Administrator, pc[t] = "confirm", file = reading.read,
         Adopt(t, reading.parsed)
  PROVE  /\ settings' \in Settings /\ settings'.smart = settings.smart
         /\ settings'.idle = IF settingsFile # None THEN settings.idle ELSE reading.parsed.idle
         /\ DOMAIN settings'.groups = DOMAIN settings.groups \cap Models(config)'
         /\ \A m \in DOMAIN settings'.groups : settings'.groups[m] = settings.groups[m]
         /\ settingsFile' = settingsFile /\ taken' = taken
         /\ config.groups \cup dropped \subseteq config'.groups \cup dropped'
<1> DEFINE c == reading.parsed
           kept == Restrict(settings.groups, DOMAIN settings.groups \cap Models(c))
           idle == IdleAfter(c)
<1>1. /\ IsContent(c) /\ Models(config)' = Models(c) /\ config'.groups = c.groups
  BY AdoptFacts DEF TypedInv
<1>2. settings' = [settings EXCEPT !.idle = idle, !.groups = Restrict(@, DOMAIN @ \cap Models(c))]
      /\ settingsFile' = settingsFile /\ taken' = taken /\ dropped' = (dropped \cup config.groups) \ c.groups
  BY DEF Adopt
<1> HIDE DEF c
<1>3. /\ settings.groups \in Policies /\ settings.idle \in BOOLEAN /\ settings.smart \in BOOLEAN
      /\ settings = [groups |-> settings.groups, idle |-> settings.idle, smart |-> settings.smart]
  BY SettingsFields DEF PolicyInv
<1>4. /\ kept \in Policies /\ DOMAIN kept = DOMAIN settings.groups \cap Models(c)
      /\ \A m \in DOMAIN kept : kept[m] = settings.groups[m]
  BY <1>3, PolicyRestricted
<1>5. idle \in BOOLEAN /\ idle = IF settingsFile # None THEN settings.idle ELSE c.idle
  BY <1>1, <1>3 DEF IdleAfter, IsContent
<1> HIDE DEF idle
<1>6. settings' = [groups |-> kept, idle |-> idle, smart |-> settings.smart]
  BY <1>2, <1>3
<1> HIDE DEF kept
<1>7. settings' \in Settings
  BY <1>3, <1>4, <1>5, <1>6, SettingsMade
<1>8. settings'.groups = kept /\ settings'.idle = idle /\ settings'.smart = settings.smart
  BY <1>6
<1>9. settings'.idle = IF settingsFile # None THEN settings.idle ELSE c.idle
  BY <1>5, <1>8
<1>10. config.groups \cup dropped \subseteq config'.groups \cup dropped'
  BY <1>1, <1>2
<1> QED BY <1>1, <1>2, <1>4, <1>7, <1>8, <1>9, <1>10 DEF c

(* The settings an operator saves. *)
LEMMA UpdatedSettings ==
  ASSUME TypedInv, PolicyInv, UpdateSettings
  PROVE  /\ settings' \in Settings /\ settingsFile' = settings'
         /\ Models(config)' = Models(config) /\ config'.groups = config.groups /\ dropped' = dropped
         /\ \A m \in DOMAIN settings'.groups :
              m \in Models(config) /\ settings'.groups[m] \subseteq config.groups \cup dropped
<1>1. PICK p \in Policy, keep \in BOOLEAN :
        /\ ~keep => DOMAIN p.groups \subseteq Models(config) /\ UNION Range(p.groups) \subseteq config.groups
        /\ settings' = IF keep THEN [p EXCEPT !.groups = settings.groups] ELSE p
  BY DEF UpdateSettings
<1>2. p \in Settings
  BY ConfigurationAssumption
<1>3. /\ p.groups \in Policies /\ p.idle \in BOOLEAN /\ p.smart \in BOOLEAN /\ settings.groups \in Policies
      /\ \A g \in Policies : [p EXCEPT !.groups = g] = [groups |-> g, idle |-> p.idle, smart |-> p.smart]
  BY <1>2, SettingsFields DEF PolicyInv
<1>4. /\ settings' \in Settings
      /\ \A m \in DOMAIN settings'.groups :
           m \in Models(config) /\ settings'.groups[m] \subseteq config.groups \cup dropped
  <2>1. CASE keep
    <3>1. settings' = [groups |-> settings.groups, idle |-> p.idle, smart |-> p.smart]
      BY <1>1, <1>3, <2>1
    <3>2. settings' \in Settings
      BY <1>3, <3>1, SettingsMade
    <3> QED BY <3>1, <3>2 DEF PolicyInv
  <2>2. CASE ~keep
    <3>1. \A m \in DOMAIN p.groups : m \in Models(config) /\ p.groups[m] \subseteq config.groups
      BY <1>1, <1>3, <2>2, GroupsOf
    <3> QED BY <1>1, <1>2, <2>2, <3>1
  <2> QED BY <2>1, <2>2
<1>5. Models(config)' = Models(config) /\ config'.groups = config.groups
  BY UpdatedConfig DEF TypedInv, Models
<1> QED BY <1>4, <1>5 DEF UpdateSettings

(* The settings that the next core finds. *)
LEMMA RestartedSettings ==
  ASSUME TypedInv, Restart
  PROVE  /\ IsContent(file) /\ settings' = LoadSettings(settingsFile, file)
         /\ settingsFile' = settingsFile
         /\ Models(config)' = Models(file) /\ config'.groups = file.groups
<1>1. IsContent(file) /\ config'.groups = file.groups /\ Models(config)' = Models(file)
  BY RestartedConfig DEF TypedInv, Models
<1> QED BY <1>1 DEF Restart

(* At the start the policies name no group without a lock. *)
LEMMA PolicyInitially == Init => PolicyInv
<1> SUFFICES ASSUME Init PROVE PolicyInv
  OBVIOUS
<1>1. IsContent(First)
  BY ConfigurationAssumption
<1>2. config.groups = First.groups /\ Models(config) = Models(First)
  BY <1>1 DEF Init, IsContent, Models
<1>3. settings = LoadSettings(None, First) /\ settingsFile = None
  BY DEF Init
<1> QED BY <1>1, <1>2, <1>3, LoadedSettings DEF PolicyInv

(* Policies go on naming groups that are declared, or that a reload has dropped;
   a restart takes over no policy of a group that is not declared. *)
LEMMA PolicyKept ==
  ASSUME TypedInv, PolicyInv, [Next]_vars
  PROVE  PolicyInv'
<1>1. CASE UNCHANGED <<modelVars, configVars, settingsVars>>
  BY <1>1 DEF PolicyInv, configVars, settingsVars, Models
<1>2. CASE (\E t \in Thread : Load(t) \/ Unload(t)) \/ Start
  <2>1. UNCHANGED <<config, dropped, settingsVars>>
    BY <1>2 DEF Load, Unload, Start, configVars
  <2> QED BY <2>1 DEF PolicyInv, settingsVars, Models
<1>3. ASSUME NEW t \in Administrator, pc[t] = "confirm", file = reading.read, Adopt(t, reading.parsed)
      PROVE  PolicyInv'
  <2>1. /\ settings' \in Settings /\ settingsFile' = settingsFile
        /\ DOMAIN settings'.groups = DOMAIN settings.groups \cap Models(config)'
        /\ \A m \in DOMAIN settings'.groups : settings'.groups[m] = settings.groups[m]
        /\ config.groups \cup dropped \subseteq config'.groups \cup dropped'
    BY <1>3, AdoptedSettings
  <2>2. \A m \in DOMAIN settings'.groups :
          m \in Models(config)' /\ settings'.groups[m] \subseteq config'.groups \cup dropped'
    BY <2>1 DEF PolicyInv
  <2> QED BY <2>1, <2>2 DEF PolicyInv
<1>4. CASE \E t \in Administrator : SavePolicies(t)
  BY <1>4 DEF SavePolicies, PolicyInv, configVars, Models
<1>5. CASE UpdateSettings
  BY <1>5, UpdatedSettings DEF PolicyInv
<1>6. CASE Restart
  <2>1. /\ settings' = LoadSettings(settingsFile, file) /\ settingsFile' = settingsFile /\ IsContent(file)
        /\ Models(config)' = Models(file) /\ config'.groups = file.groups
    BY <1>6, RestartedSettings
  <2>2. /\ settings' \in Settings
        /\ \A m \in DOMAIN settings'.groups : m \in Models(file) /\ settings'.groups[m] \subseteq file.groups
    BY <2>1, LoadedSettings DEF PolicyInv
  <2> QED BY <2>1, <2>2 DEF PolicyInv
<1> QED BY <1>1, <1>2, <1>3, <1>4, <1>5, <1>6, WhatMoves

(* Whatever the settings and the configuration were changed to, each configured
   model can be locked, but for groups that its policy names and a reload has
   dropped.  About _build_transition_locks (1022-1034), its use by reload_config
   (1256), and the policies, which a reload leaves as they are (1249). *)
THEOREM KeysAlwaysHaveLocks == Spec => []KeysHaveLocks
<1>1. TypedInv /\ PolicyInv /\ [Next]_vars => (TypedInv /\ PolicyInv)'
  BY TypedInvKept, PolicyKept
<1>2. TypedInv /\ PolicyInv => KeysHaveLocks
  <2> SUFFICES ASSUME TypedInv, PolicyInv, NEW m \in Models(config)
               PROVE  KeysOf(m, config.adapterOf[m]) \subseteq table \cup dropped
    BY DEF KeysHaveLocks
  <2>1. table = Locks(config) /\ config.adapterOf[m] \in Adapters(config)
    BY ConfigFacts DEF TypedInv, ModelTyped
  <2>2. EffectiveGroups(m) \subseteq config.groups \cup dropped
    BY DEF PolicyInv, EffectiveGroups
  <2> QED BY <2>1, <2>2 DEF KeysOf, Locks
<1> QED BY <1>1, <1>2, TypedInitially, PolicyInitially, PTL DEF Spec

-----------------------------------------------------------------------------
(* Saved settings. *)

(* What the start or an operator took over is what is in the settings file; if
   there is none the defaults are in force, and the timeout of the content that
   was read last, or of the file while a core starts and nobody edits it. *)
SavedInv ==
  /\ settingsFile = None =>
       /\ DOMAIN settings.groups = {} /\ settings.smart = FALSE
       /\ undisturbed => settings.idle = bytes.idle
       /\ pc[IdleWorker] = "start" /\ reading.edits = 0 => settings.idle = file.idle
  /\ settingsFile # None /\ taken =>
       /\ settings.smart = settingsFile.smart /\ settings.idle = settingsFile.idle
       /\ \A m \in DOMAIN settings.groups :
            m \in DOMAIN settingsFile.groups /\ settings.groups[m] = settingsFile.groups[m]

(* At the start nothing has been saved. *)
LEMMA SavedInitially == Init => SavedInv
<1> SUFFICES ASSUME Init PROVE SavedInv
  OBVIOUS
<1>1. IsContent(First)
  BY ConfigurationAssumption
<1>2. settings = LoadSettings(None, First) /\ settingsFile = None /\ file = First /\ undisturbed = FALSE
  BY DEF Init
<1> QED BY <1>1, <1>2, LoadedSettings DEF SavedInv

(* A file of settings is no None. *)
LEMMA SettingsAreSome == \A s \in Settings : s # None
BY ConfigurationAssumption

(* While a core starts the file is changed by editors only. *)
LEMMA StartingStays ==
  ASSUME TypedInv, [Next]_vars, pc'[IdleWorker] = "start", reading'.edits = 0, ~Restart
  PROVE  pc[IdleWorker] = "start" /\ reading.edits = 0 /\ file' = file
<1> USE DEF TypedInv
<1>1. pc[IdleWorker] = "start" => \A t \in Administrator : pc[t] = "start"
  BY DEF ReadingInv, StartsTogether
<1>2. CASE Edit
  <2>1. reading = [read |-> reading.read, parsed |-> reading.parsed, edits |-> reading.edits] /\ reading.edits \in Nat
    BY DEF ReadingInv, ReadingsAgree
  <2>2. pc' = pc /\ reading' = [reading EXCEPT !.edits = @ + 1]
    BY <1>2, ThreadFacts DEF Edit
  <2>3. reading'.edits = reading.edits + 1
    BY <2>1, <2>2
  <2> QED BY <2>1, <2>3
<1>3. ASSUME NEW t \in Administrator, NEW label, Goto(t, label), pc[t] # "start"
      PROVE  FALSE
  <2>1. pc'[IdleWorker] = pc[IdleWorker]
    BY <1>3, GotoElsewhere, ThreadFacts
  <2> QED BY <1>1, <1>3, <2>1
<1>4. ASSUME NEW t \in Administrator, Reload(t) \/ Parse(t) \/ Confirm(t) \/ PruneReplace(t) \/ Rollback(t)
      PROVE  FALSE
  <2>1. pc[t] # "start"
    BY <1>4 DEF Reload, Parse, Confirm, PruneReplace, Rollback
  <2>2. CASE \E label : Goto(t, label)
    BY <1>3, <2>1, <2>2
  <2>3. CASE Adopt(t, reading.parsed)
    <3>1. PICK label \in {"scan", pc[IdleWorker]}, mine \in {"save", "idle"} :
            pc' = [pc EXCEPT ![t] = mine, ![IdleWorker] = label]
      BY <2>3 DEF Adopt, Wanted
    <3>2. pc'[IdleWorker] = label
      BY <3>1, ThreadFacts DEF PruneInv
    <3> QED BY <1>1, <2>1, <3>2
  <2> QED BY <1>4, <2>2, <2>3 DEF Reload, Parse, Confirm, Rejected, PruneReplace, Rollback, GivesUp
<1>5. CASE UpdateSettings
  BY <1>5, ThreadFacts DEF UpdateSettings, Wanted, PruneInv
<1>6. CASE Start
  BY <1>6, ThreadFacts DEF Start
<1>7. CASE
         \/ \E t \in Thread : Operate(t)
         \/ \E t \in Operator, m \in Model : Begin(t, m)
         \/ \E t \in Administrator :
              BeginReload(t) \/ Review(t) \/ PruneBegin(t) \/ PruneCheck(t) \/ PruneRecheck(t) \/ SavePolicies(t)
         \/ IdleScan \/ IdleNext \/ IdleHandle \/ IdleRest
         \/ UNCHANGED vars
  <2>1. UNCHANGED <<file, reading>> /\ (pc'[IdleWorker] \in Watched => pc'[IdleWorker] = pc[IdleWorker])
    BY <1>7, OtherSteps
  <2> QED BY <2>1 DEF Watched
<1>8. CASE \E t \in Administrator : Reload(t) \/ Parse(t) \/ Confirm(t) \/ PruneReplace(t) \/ Rollback(t)
  BY <1>4, <1>8
<1> QED BY <1>2, <1>5, <1>6, <1>7, <1>8 DEF Next, ReloadStep, PruneStep

(* The saved settings and those in force stay together. *)
LEMMA SavedKept ==
  ASSUME TypedInv, PolicyInv, SavedInv, [Next]_vars
  PROVE  SavedInv'
<1>1. ASSUME UNCHANGED <<settingsFile, settings, taken, bytes, undisturbed>>, ~Restart
      PROVE  SavedInv'
  BY <1>1, StartingStays DEF SavedInv
<1>2. CASE UNCHANGED <<modelVars, configVars, settingsVars>> /\ ~Restart
  BY <1>1, <1>2 DEF configVars, settingsVars
<1>3. CASE (\E t \in Thread : Load(t) \/ Unload(t)) /\ ~Restart
  BY <1>1, <1>3 DEF Load, Unload, configVars, settingsVars
<1>4. ASSUME NEW t \in Administrator, pc[t] = "confirm", file = reading.read, Adopt(t, reading.parsed), ~Restart
      PROVE  SavedInv'
  <2>1. /\ settings'.smart = settings.smart /\ settingsFile' = settingsFile /\ taken' = taken
        /\ settings'.idle = IF settingsFile # None THEN settings.idle ELSE reading.parsed.idle
        /\ DOMAIN settings'.groups \subseteq DOMAIN settings.groups
        /\ \A m \in DOMAIN settings'.groups : settings'.groups[m] = settings.groups[m]
    BY <1>4, AdoptedSettings
  <2>2. bytes' = reading.read /\ (undisturbed' => reading.parsed = reading.read)
    BY <1>4, ParsedIsRead DEF TypedInv, Adopt
  <2>3. pc'[IdleWorker] # "start"
    <3>1. pc[IdleWorker] # "start"
      BY <1>4, NobodyStarts DEF TypedInv
    <3>2. PICK label \in {"scan", pc[IdleWorker]}, mine \in {"save", "idle"} :
            pc' = [pc EXCEPT ![t] = mine, ![IdleWorker] = label]
      BY <1>4 DEF Adopt, Wanted
    <3> QED BY <3>1, <3>2, ThreadFacts DEF TypedInv, PruneInv
  <2> QED BY <2>1, <2>2, <2>3 DEF SavedInv
<1>5. CASE (\E t \in Administrator : SavePolicies(t)) /\ ~Restart
  <2>1. PICK t \in Administrator : SavePolicies(t)
    BY <1>5
  <2>2. UNCHANGED <<settings, bytes, undisturbed>>
    BY <2>1 DEF SavePolicies, configVars
  <2>3. CASE UNCHANGED <<settingsFile, taken>>
    BY <1>1, <1>5, <2>2, <2>3
  <2>4. CASE settingsFile' = settings
    <3>1. settings # None
      BY SettingsAreSome DEF PolicyInv
    <3> QED BY <2>2, <2>4, <3>1 DEF SavedInv
  <2> QED BY <2>1, <2>3, <2>4 DEF SavePolicies
<1>6. CASE UpdateSettings
  <2>1. settings' \in Settings /\ settingsFile' = settings'
    BY <1>6, UpdatedSettings
  <2>2. settingsFile' # None
    BY <2>1, SettingsAreSome
  <2> QED BY <2>1, <2>2 DEF SavedInv
<1>7. CASE Restart
  <2>1. /\ IsContent(file) /\ settings' = LoadSettings(settingsFile, file) /\ settingsFile' = settingsFile
        /\ file' = file /\ undisturbed' = FALSE /\ taken' = Usable(settingsFile, file)
    BY <1>7, RestartedSettings DEF Restart, fileVars
  <2>2. settingsFile \in Settings \cup {None}
    BY DEF PolicyInv
  <2>3. CASE settingsFile = None
    BY <2>1, <2>2, <2>3, LoadedSettings DEF SavedInv
  <2>4. CASE settingsFile # None
    <3>1. taken' =>
            /\ settings'.smart = settingsFile.smart /\ settings'.idle = settingsFile.idle
            /\ DOMAIN settings'.groups = DOMAIN settingsFile.groups \cap Models(file)
            /\ \A m \in DOMAIN settings'.groups : settings'.groups[m] = settingsFile.groups[m]
      BY <2>1, <2>2, <2>4, LoadedSettings
    <3> QED BY <2>1, <2>4, <3>1 DEF SavedInv
  <2> QED BY <2>3, <2>4
<1>8. CASE Start
  <2>1. /\ UNCHANGED <<settingsFile, settings, taken>> /\ bytes' = file /\ undisturbed' = (reading.edits = 0)
        /\ pc[IdleWorker] = "start" /\ pc'[IdleWorker] # "start"
    BY <1>8, ThreadFacts DEF Start, settingsVars
  <2> QED BY <2>1 DEF SavedInv
<1> QED BY <1>2, <1>3, <1>4, <1>5, <1>6, <1>7, <1>8, WhatMoves

(* A restart in the middle of anything changes no policy that is in force,
   whatever was saved, reloaded and pruned before, as long as the file is the one
   that was loaded, and the settings file one that it accepts and that the last
   start has accepted.  About update_settings, which writes the file before it
   returns, and the idle timeout that a reload takes over (1146-1169, 1246). *)
THEOREM PoliciesAlwaysSurvive == Spec => []PoliciesSurviveRestart
<1> DEFINE Inv == TypedInv /\ PolicyInv /\ SavedInv
<1>1. Inv /\ [Next]_vars => Inv'
  BY TypedInvKept, PolicyKept, SavedKept
<1>2. Inv => PoliciesSurviveRestart
  <2> SUFFICES ASSUME TypedInv, PolicyInv, SavedInv, undisturbed, taken, Usable(settingsFile, bytes)
               PROVE  LET then == LoadSettings(settingsFile, bytes) IN
                      /\ then.smart = settings.smart /\ then.idle = settings.idle
                      /\ \A m \in DOMAIN settings.groups :
                           m \in DOMAIN then.groups /\ then.groups[m] = settings.groups[m]
    BY DEF PoliciesSurviveRestart
  <2> DEFINE then == LoadSettings(settingsFile, bytes)
  <2>1. IsContent(bytes) /\ Models(config) = Models(bytes)
    <3>1. IsContent(bytes) /\ RevisionNamesConfig
      BY DEF TypedInv, ReadingInv, ContentsSound
    <3>2. config.adapterOf = bytes.adapterOf
      BY <3>1, IdleReplaced, ContentFields DEF RevisionNamesConfig
    <3> QED BY <3>1, <3>2 DEF Models
  <2>2. settingsFile \in Settings \cup {None}
    BY DEF PolicyInv
  <2>3. CASE settingsFile = None
    <3>1. then.smart = FALSE /\ then.idle = bytes.idle
      BY <2>1, <2>2, <2>3, LoadedSettings
    <3> QED BY <2>3, <3>1 DEF SavedInv
  <2>4. CASE settingsFile # None
    <3>1. /\ then.smart = settingsFile.smart /\ then.idle = settingsFile.idle
          /\ DOMAIN then.groups = DOMAIN settingsFile.groups \cap Models(bytes)
          /\ \A m \in DOMAIN then.groups : then.groups[m] = settingsFile.groups[m]
      BY <2>1, <2>2, <2>4, LoadedSettings
    <3> HIDE DEF then
    <3>2. \A m \in DOMAIN settings.groups : m \in DOMAIN then.groups /\ then.groups[m] = settings.groups[m]
      BY <2>1, <2>4, <3>1 DEF SavedInv, PolicyInv
    <3>3. then.smart = settings.smart /\ then.idle = settings.idle
      BY <2>4, <3>1 DEF SavedInv
    <3> QED BY <3>2, <3>3 DEF then
  <2> QED BY <2>3, <2>4
<1>3. Init => Inv
  BY TypedInitially, PolicyInitially, SavedInitially
<1> HIDE DEF Inv
<1> QED BY <1>1, <1>2, <1>3, PTL DEF Spec
=============================================================================
