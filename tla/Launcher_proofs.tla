--------------------------- MODULE Launcher_proofs --------------------------
(***************************************************************************)
(* Proofs about Launcher, for any number of runs and of faults.              *)
(***************************************************************************)
EXTENDS Launcher, TLAPS

Place == {"off", "watch", "end", "refused", "killed", "stuck"} \cup Starting \cup Stopping
Fate  == {"none", "loading", "up", "dead"}

\* What a launcher has not yet started is not there; what it has stopped is not there
\* any more, and nothing starts it again.
ChildOf(l) ==
    /\ pc[l] \in {"off", "check", "build", "load", "refused"} => \A r \in Role : child[l][r] = "none"
    /\ pc[l] = "model" => child[l]["site"] = "none" /\ child[l]["worker"] = "none"
    /\ pc[l] = "site" => child[l]["worker"] = "none"
    /\ pc[l] \in {"stop site", "stop model", "clean", "end"} => ~Alive(l, "worker")
    /\ pc[l] \in {"stop model", "clean", "end"} => ~Alive(l, "site")
    /\ pc[l] \in {"clean", "end"} => ~Alive(l, "model")
ChildInv == \A l \in Run : ChildOf(l)

\* Where a launcher that has written its record may be, until the record goes.
Recorded == {"watch", "killed", "stuck"} \cup Stopping
\* Where a launcher stays.
Over == {"end", "killed", "stuck"}

\* A record is of a run that has not come to its end; stop.ps1 waits for one that was
\* recorded.
RecordInv ==
  /\ record # None => pc[record] \in Recorded
  /\ awaited # None => pc[awaited] \in Recorded \cup {"end"}

\* As long as launchers do not overlap there is one at a time, the record is of the run
\* that is watched, and what stop.ps1 waits for is recorded until it is over.
AloneInv ==
  ~overlapped =>
    /\ \A l, m \in Live : l = m
    /\ \A l \in Run : pc[l] = "watch" => record = l
    /\ awaited # None => record = awaited \/ pc[awaited] \in Over
    /\ \A l \in told : pc[l] \in Over

LauncherInv == TypeOK /\ ChildInv /\ RecordInv /\ AloneInv


-----------------------------------------------------------------------------
\* One launcher goes somewhere, the others stay.
LEMMA Went ==
  ASSUME TypeOK, NEW l \in Run, NEW where \in Place, Goto(l, where)
  PROVE  /\ pc' \in [Run -> Place]
         /\ \A m \in Run : pc'[m] = IF m = l THEN where ELSE pc[m]
BY DEF TypeOK, Place, Starting, Stopping, Role, Goto

\* One child becomes something, the others stay.
LEMMA Became ==
  ASSUME TypeOK, NEW l \in Run, NEW r \in Role, NEW what \in Fate, Become(l, r, what)
  PROVE  /\ child' \in [Run -> [Role -> Fate]]
         /\ \A m \in Run, q \in Role :
              child'[m][q] = IF m = l /\ q = r THEN what ELSE child[m][q]
<1>1. child \in [Run -> [Role -> Fate]] BY DEF TypeOK, Fate
<1>2. child' = [child EXCEPT ![l] = [child[l] EXCEPT ![r] = what]] BY DEF Become
<1> DEFINE new == [child[l] EXCEPT ![r] = what]
<1>3. new \in [Role -> Fate] /\ \A q \in Role : new[q] = IF q = r THEN what ELSE child[l][q]
  BY <1>1
<1> HIDE DEF new
<1>4. child' = [child EXCEPT ![l] = new] BY <1>2 DEF new
<1> QED BY <1>1, <1>3, <1>4

\* At the start there is no run.
LEMMA LauncherInit == Init => LauncherInv
<1> SUFFICES ASSUME Init PROVE LauncherInv OBVIOUS
<1> USE LauncherAssumption
<1>1. TypeOK
  <2>1. pc \in [Run -> {"off"}] /\ child \in [Run -> [Role -> {"none"}]] BY DEF Init
  <2>2. told \subseteq Run /\ overlapped \in BOOLEAN /\ faults = 0 BY DEF Init
  <2> QED BY <2>1, <2>2 DEF Init, TypeOK
<1>2. ChildInv BY DEF Init, ChildInv, ChildOf, Role
<1>3. RecordInv BY DEF Init, RecordInv
<1>4. Live = {} BY DEF Init, Live, Starting, Stopping, Role
<1>5. AloneInv BY <1>4 DEF Init, AloneInv, Over
<1> QED BY <1>1, <1>2, <1>3, <1>5 DEF LauncherInv


\* Every action keeps the types.
LEMMA LauncherTypes == TypeOK /\ [Next]_vars => TypeOK'
<1> SUFFICES ASSUME TypeOK, [Next]_vars PROVE TypeOK' OBVIOUS
<1> USE LauncherAssumption
<1>0. ASSUME pc' \in [Run -> Place], child' \in [Run -> [Role -> Fate]],
             record' \in Run \cup {None}, request' \in Run \cup {None},
             awaited' \in Run \cup {None}, told' \subseteq Run,
             overlapped' \in BOOLEAN, faults' \in 0..MaxFaults
      PROVE  TypeOK'
  BY <1>0 DEF TypeOK, Place, Fate
<1>1. /\ pc \in [Run -> Place] /\ child \in [Run -> [Role -> Fate]]
      /\ record \in Run \cup {None} /\ request \in Run \cup {None}
      /\ awaited \in Run \cup {None} /\ told \subseteq Run
      /\ overlapped \in BOOLEAN /\ faults \in 0..MaxFaults
  BY DEF TypeOK, Place, Fate
<1>2. \A f \in 0..MaxFaults : f < MaxFaults => f + 1 \in 0..MaxFaults OBVIOUS
<1>3. CASE AskStop \/ Stopped \/ GivesUp
  BY <1>0, <1>1, <1>3 DEF AskStop, Stopped, GivesUp, files, Live
<1>4. ASSUME NEW l \in Run, Open(l) \/ Kill(l) PROVE TypeOK'
  <2>1. "check" \in Place /\ "killed" \in Place BY DEF Place, Starting
  <2>2. pc' \in [Run -> Place] BY <1>4, <2>1, Went DEF Open, Kill
  <2> QED BY <1>0, <1>1, <1>2, <1>4, <2>2 DEF Open, Kill, files, user
<1>5. ASSUME NEW l \in Run, Preflight(l) \/ Frontend(l) \/ NotReady(l) \/ Watch(l) PROVE TypeOK'
  <2>1. {"build", "refused", "load", "stop worker"} \subseteq Place BY DEF Place, Starting, Stopping
  <2>2. pc' \in [Run -> Place] BY <1>5, <2>1, Went DEF Preflight, Frontend, NotReady, Watch
  <2> QED BY <1>0, <1>1, <1>5, <2>2 DEF Preflight, Frontend, NotReady, Watch, files, user
<1>6. ASSUME NEW l \in Run, WriteRecord(l) \/ Clean(l) PROVE TypeOK'
  <2>1. {"watch", "stop worker", "end"} \subseteq Place BY DEF Place, Stopping
  <2>2. pc' \in [Run -> Place] BY <1>6, <2>1, Went DEF WriteRecord, Clean
  <2> QED BY <1>0, <1>1, <1>6, <2>2 DEF WriteRecord, Clean, user
<1>7. ASSUME NEW l \in Run, StartModel(l) PROVE TypeOK'
  <2>1. "model" \in Place /\ "refused" \in Place /\ "model" \in Role /\ "loading" \in Fate
    BY DEF Place, Starting, Role, Fate
  <2>2. pc' \in [Run -> Place] BY <1>7, <2>1, Went DEF StartModel
  <2>3. child' \in [Run -> [Role -> Fate]] BY <1>1, <1>7, <2>1, Became DEF StartModel
  <2> QED BY <1>0, <1>1, <1>7, <2>2, <2>3 DEF StartModel, files, user
<1>8. ASSUME NEW l \in Run, NEW r \in Served, Ready(l, r) PROVE TypeOK'
  <2>1. After(r) \in Place /\ After(r) \in Role /\ {"loading", "up"} \subseteq Fate
    BY DEF After, Place, Starting, Role, Fate
  <2>2. pc' \in [Run -> Place] BY <1>8, <2>1, Went DEF Ready
  <2>3. child' \in [Run -> [Role -> Fate]] BY <1>8, <2>1, Became DEF Ready
  <2> QED BY <1>0, <1>1, <1>8, <2>2, <2>3 DEF Ready, files, user
<1>9. ASSUME NEW l \in Run, NEW r \in Role, Stop(l, r) \/ Stuck(l, r) PROVE TypeOK'
  <2>1. AfterStop(r) \in Place /\ "stuck" \in Place /\ "dead" \in Fate
    BY DEF AfterStop, Place, Stopping, Role, Fate
  <2>2. pc' \in [Run -> Place] BY <1>9, <2>1, Went DEF Stop, Stuck
  <2>3. child' \in [Run -> [Role -> Fate]] BY <1>1, <1>9, <2>1, Became DEF Stop, Stuck
  <2> QED BY <1>0, <1>1, <1>2, <1>9, <2>2, <2>3 DEF Stop, Stuck, files, user
<1>10. ASSUME NEW l \in Run, NEW r \in Role, Bind(l, r) \/ Crash(l, r) PROVE TypeOK'
  <2>1. {"up", "dead"} \subseteq Fate BY DEF Fate
  <2>2. child' \in [Run -> [Role -> Fate]] BY <1>10, <2>1, Became DEF Bind, Crash
  <2> QED BY <1>0, <1>1, <1>2, <1>10, <2>2 DEF Bind, Crash, files, user
<1>11. CASE UNCHANGED vars BY <1>11 DEF vars, TypeOK
<1>12. Served \subseteq Role BY DEF Served, Role
<1> QED BY <1>3, <1>4, <1>5, <1>6, <1>7, <1>8, <1>9, <1>10, <1>11, <1>12 DEF Next, Launch

\* A launcher starts its children in order and ends each before it goes on; by itself a
\* child only comes up or ends.
LEMMA ChildStep == TypeOK /\ ChildInv /\ [Next]_vars => ChildInv'
<1> SUFFICES ASSUME TypeOK, ChildInv, [Next]_vars, NEW m \in Run PROVE ChildOf(m)' BY DEF ChildInv
<1> DEFINE Gone(l, r) == child[l][r] \in {"none", "dead"}
<1>0. ChildOf(m) BY DEF ChildInv
<1>1. CASE pc'[m] = pc[m] /\ child'[m] = child[m] BY <1>0, <1>1 DEF ChildOf, Alive
<1>2. CASE UNCHANGED child /\ pc'[m] \in {"check", "build", "load", "refused"}
           /\ pc[m] \in {"off", "check", "build", "load"}
  BY <1>0, <1>2 DEF ChildOf
<1>3. CASE UNCHANGED child /\ pc'[m] \in {"watch", "stop worker", "killed", "stuck"}
  BY <1>0, <1>3 DEF ChildOf
<1>4. ASSUME NEW l \in Run, Open(l) \/ Preflight(l) \/ Frontend(l) \/ Kill(l) \/ NotReady(l) \/ Watch(l)
             \/ WriteRecord(l)
      PROVE  ChildOf(m)'
  <2>1. m # l => pc'[m] = pc[m]
    BY <1>4 DEF Open, Preflight, Frontend, Kill, NotReady, Watch, WriteRecord, Goto, TypeOK
  <2>2. \/ pc'[l] \in {"check", "build", "load", "refused"} /\ pc[l] \in {"off", "check", "build", "load"}
        \/ pc'[l] \in {"watch", "stop worker", "killed", "stuck"}
    BY <1>4 DEF Open, Preflight, Frontend, Kill, NotReady, Watch, WriteRecord, Goto, TypeOK
  <2>3. UNCHANGED child BY <1>4 DEF Open, Preflight, Frontend, Kill, NotReady, Watch, WriteRecord
  <2> QED BY <1>1, <1>2, <1>3, <2>1, <2>2, <2>3
<1>5. ASSUME NEW l \in Run, Clean(l) PROVE ChildOf(m)'
  BY <1>0, <1>5 DEF Clean, Goto, TypeOK, ChildOf, Alive
<1>6. ASSUME NEW l \in Run, StartModel(l) PROVE ChildOf(m)'
  <2>1. "model" \in Place /\ "refused" \in Place /\ "model" \in Role /\ "loading" \in Fate
    BY DEF Place, Starting, Role, Fate
  <2>2. CASE Goto(l, "refused") /\ UNCHANGED child
    BY <1>1, <1>2, <1>6, <2>2 DEF StartModel, Goto, TypeOK
  <2>3. CASE Goto(l, "model") /\ Become(l, "model", "loading")
    <3>1. pc'[m] = IF m = l THEN "model" ELSE pc[m] BY <2>1, <2>3, Went
    <3>2. \A q \in Role : child'[m][q] = IF m = l /\ q = "model" THEN "loading" ELSE child[m][q]
      BY <2>1, <2>3, Became
    <3>3. pc[l] = "load" BY <1>6 DEF StartModel
    <3> QED BY <1>0, <3>1, <3>2, <3>3 DEF ChildOf, Alive, Role
  <2> QED BY <1>6, <2>2, <2>3 DEF StartModel
<1>7. ASSUME NEW l \in Run, NEW r \in Served, Ready(l, r) PROVE ChildOf(m)'
  <2> DEFINE born == IF After(r) \in Served THEN "loading" ELSE "up"
  <2>1. After(r) \in Place /\ After(r) \in Role /\ born \in Fate
    BY DEF After, Place, Starting, Role, Fate
  <2>2. Goto(l, After(r)) /\ Become(l, After(r), born) /\ pc[l] = r BY <1>7 DEF Ready
  <2> HIDE DEF born
  <2>3. pc'[m] = IF m = l THEN After(r) ELSE pc[m] BY <2>1, <2>2, Went
  <2>4. \A q \in Role : child'[m][q] = IF m = l /\ q = After(r) THEN born ELSE child[m][q]
    BY <2>1, <2>2, Became
  <2>5. \/ r = "model" /\ After(r) = "site"
        \/ r = "site" /\ After(r) = "worker"
    BY DEF Served, After
  <2> QED BY <1>0, <2>2, <2>3, <2>4, <2>5 DEF ChildOf, Alive, Role
<1>8. ASSUME NEW l \in Run, NEW r \in Role, Stop(l, r) PROVE ChildOf(m)'
  <2>1. AfterStop(r) \in Place /\ "dead" \in Fate BY DEF AfterStop, Place, Stopping, Role, Fate
  <2>2. pc'[m] = IF m = l THEN AfterStop(r) ELSE pc[m] BY <1>8, <2>1, Went DEF Stop
  <2>3. \A q \in Role : \/ child'[m][q] = child[m][q]
                        \/ m = l /\ q = r /\ child'[m][q] = "dead"
    BY <1>8, <2>1, Became DEF Stop
  <2>4. ~Alive(l, r)'
    BY <1>8, <2>1, Became DEF Stop, Alive
  <2>5. \/ r = "worker" /\ pc[l] = "stop worker" /\ AfterStop(r) = "stop site"
        \/ r = "site" /\ pc[l] = "stop site" /\ AfterStop(r) = "stop model"
        \/ r = "model" /\ pc[l] = "stop model" /\ AfterStop(r) = "clean"
    BY <1>8 DEF Stop, StopStep, AfterStop, Role
  <2> QED BY <1>0, <2>2, <2>3, <2>4, <2>5 DEF ChildOf, Alive, Role
<1>9. ASSUME NEW l \in Run, NEW r \in Role, Stuck(l, r) PROVE ChildOf(m)'
  BY <1>1, <1>3, <1>9 DEF Stuck, Goto, TypeOK
<1>10. ASSUME NEW l \in Run, NEW r \in Role, Bind(l, r) \/ Crash(l, r) PROVE ChildOf(m)'
  <2>1. {"up", "dead"} \subseteq Fate BY DEF Fate
  <2>2. \A q \in Role : child'[m][q] = child[m][q] \/ Alive(m, q)
    BY <1>10, <2>1, Became DEF Bind, Crash, Alive
  <2>3. pc' = pc BY <1>10 DEF Bind, Crash
  <2>4. \A q \in Role : child[m][q] = "none" => child'[m][q] = "none" BY <2>2 DEF Alive
  <2>5. \A q \in Role : ~Alive(m, q) => ~Alive(m, q)' BY <2>2 DEF Alive
  <2> QED BY <1>0, <2>3, <2>4, <2>5 DEF ChildOf, Role
<1>11. CASE AskStop \/ Stopped \/ GivesUp \/ UNCHANGED vars
  BY <1>1, <1>11 DEF AskStop, Stopped, GivesUp, vars
<1>12. Served \subseteq Role BY DEF Served, Role
<1> QED BY <1>4, <1>5, <1>6, <1>7, <1>8, <1>9, <1>10, <1>11, <1>12 DEF Next, Launch

\* A run that was recorded has been watched, and its record goes with its end.
LEMMA RecordStep == TypeOK /\ RecordInv /\ [Next]_vars => RecordInv'
<1> SUFFICES ASSUME TypeOK, RecordInv, [Next]_vars PROVE RecordInv' OBVIOUS
<1> USE LauncherAssumption DEF RecordInv, Recorded
<1>0. record \in Run \cup {None} /\ awaited \in Run \cup {None} BY DEF TypeOK
<1>1. ASSUME NEW l \in Run, NEW where \in Recorded \cup {"end", "check", "build", "refused", "load", "model", "site", "worker"},
             Goto(l, where), where = "end" => record' = None,
             where \notin Recorded \cup {"end"} => pc[l] \notin Recorded \cup {"end"},
             record' \in {record, None} \/ (record' = l /\ where = "watch"), awaited' = awaited
      PROVE  RecordInv'
  <2>1. where \in Place BY DEF Place, Starting, Stopping, Role
  <2>2. \A m \in Run : pc'[m] = IF m = l THEN where ELSE pc[m] BY <1>1, <2>1, Went
  <2>3. ASSUME record' # None PROVE pc'[record'] \in Recorded BY <1>0, <1>1, <2>2, <2>3
  <2>4. ASSUME awaited' # None PROVE pc'[awaited'] \in Recorded \cup {"end"} BY <1>0, <1>1, <2>2, <2>4
  <2> QED BY <2>3, <2>4
<1>2. CASE UNCHANGED <<pc, record, awaited>> BY <1>2
<1>3. CASE AskStop BY <1>3 DEF AskStop
<1>4. CASE Stopped \/ GivesUp BY <1>4 DEF Stopped, GivesUp, files
<1>5. ASSUME NEW l \in Run, Open(l) PROVE RecordInv'
  BY <1>1, <1>5 DEF Open, Stopping
<1>6. ASSUME NEW l \in Run, Preflight(l) \/ Frontend(l) \/ StartModel(l) PROVE RecordInv'
  BY <1>1, <1>6 DEF Preflight, Frontend, StartModel, files, user, Stopping
<1>7. ASSUME NEW l \in Run, NotReady(l) \/ Watch(l) \/ Kill(l) PROVE RecordInv'
  BY <1>1, <1>7 DEF NotReady, Watch, Kill, files, user, Stopping
<1>8. ASSUME NEW l \in Run, WriteRecord(l) PROVE RecordInv'
  BY <1>1, <1>8 DEF WriteRecord, user, Stopping
<1>9. ASSUME NEW l \in Run, Clean(l) PROVE RecordInv'
  BY <1>1, <1>9 DEF Clean, user, Stopping
<1>10. ASSUME NEW l \in Run, NEW r \in Served, Ready(l, r) PROVE RecordInv'
  <2>1. r \in {"model", "site"} /\ After(r) \in {"site", "worker"} BY DEF Served, After
  <2>2. Goto(l, After(r)) /\ pc[l] = r /\ record' = record /\ awaited' = awaited
    BY <1>10 DEF Ready, files, user
  <2>3. pc[l] \notin Recorded \cup {"end"} BY <2>1, <2>2 DEF Stopping
  <2> QED BY <1>1, <2>1, <2>2, <2>3 DEF Stopping
<1>11. ASSUME NEW l \in Run, NEW r \in Role, Stop(l, r) \/ Stuck(l, r) PROVE RecordInv'
  <2>1. AfterStop(r) \in Stopping BY DEF AfterStop, Role, Stopping
  <2>2. (Goto(l, AfterStop(r)) \/ Goto(l, "stuck")) /\ record' = record /\ awaited' = awaited
    BY <1>11 DEF Stop, Stuck, files, user
  <2> QED BY <1>1, <2>1, <2>2 DEF Stopping
<1>12. ASSUME NEW l \in Run, NEW r \in Role, Bind(l, r) \/ Crash(l, r) PROVE RecordInv'
  BY <1>2, <1>12 DEF Bind, Crash, files, user
<1>13. CASE UNCHANGED vars BY <1>2, <1>13 DEF vars
<1>14. Served \subseteq Role BY DEF Served, Role
<1> QED BY <1>3, <1>4, <1>5, <1>6, <1>7, <1>8, <1>9, <1>10, <1>11, <1>12, <1>13, <1>14 DEF Next, Launch

\* What a launcher does that is alone: it begins when there is no other, it writes and
\* removes its own record, and it ends.
LEMMA AloneStep == TypeOK /\ RecordInv /\ AloneInv /\ [Next]_vars => AloneInv'
<1> SUFFICES ASSUME TypeOK, RecordInv, AloneInv, [Next]_vars, ~overlapped' PROVE AloneInv' BY DEF AloneInv
<1> USE LauncherAssumption
<1> DEFINE Is(l) == pc[l] \in {"watch"} \cup Starting \cup Stopping
<1>0. /\ record \in Run \cup {None} /\ awaited \in Run \cup {None} /\ told \subseteq Run
      /\ \A l \in Run : l \in Live <=> Is(l)
      /\ Live \subseteq Run
  BY DEF TypeOK, Live
<1>1. ~overlapped
  BY DEF Next, Launch, vars, files, user, AskStop, Stopped, GivesUp, Open, Kill, Bind, Crash, Preflight, Frontend,
     StartModel, NotReady, WriteRecord, Watch, Clean, Ready, Stop, Stuck
<1>2. /\ \A l, m \in Live : l = m
      /\ \A l \in Run : pc[l] = "watch" => record = l
      /\ awaited # None => record = awaited \/ pc[awaited] \in Over
      /\ \A l \in told : pc[l] \in Over
  BY <1>1 DEF AloneInv
\* The only launcher there is goes on.
<1>3. ASSUME NEW l \in Live, NEW where \in Place \ {"off"}, Goto(l, where),
             where = "watch" => record' = l,
             awaited' = awaited, told' = told,
             awaited # None => record' \in {record, l} \/ where \in Over
      PROVE  AloneInv'
  <2>1. \A m \in Run : pc'[m] = IF m = l THEN where ELSE pc[m] BY <1>0, <1>3, Went
  <2>2. \A m \in Run : Is(m)' => m = l BY <1>0, <1>2, <2>1
  <2>3. Live' \subseteq {l} BY <2>2 DEF Live
  <2>4. \A m \in Run : pc'[m] = "watch" => record' = m BY <1>3, <2>1, <2>2
  <2>5. pc[l] \notin Over BY <1>0 DEF Over, Starting, Stopping, Role
  <2>6. \A m \in Run : pc[m] \in Over => pc'[m] \in Over BY <2>1, <2>5
  <2>7. \A m \in told' : pc'[m] \in Over BY <1>0, <1>2, <1>3, <2>6
  <2>8. ASSUME awaited' # None PROVE record' = awaited' \/ pc'[awaited'] \in Over
    <3>1. awaited \in Run /\ awaited' = awaited BY <1>0, <1>3, <2>8
    <3>2. CASE pc[awaited] \in Over BY <2>6, <3>1, <3>2
    <3>3. CASE record = awaited /\ awaited # l
      <4>1. awaited \notin Live BY <1>2, <3>1, <3>3
      <4>2. pc[awaited] \in Recorded BY <3>1, <3>3 DEF RecordInv
      <4>3. pc[awaited] \in Over BY <1>0, <3>1, <4>1, <4>2 DEF Recorded, Over
      <4> QED BY <3>2, <4>3
    <3>4. CASE record = awaited /\ awaited = l
      BY <1>3, <2>1, <3>1, <3>4
    <3> QED BY <1>2, <3>1, <3>2, <3>3, <3>4
  <2> QED BY <2>3, <2>4, <2>7, <2>8 DEF AloneInv
<1>4. CASE UNCHANGED <<pc, record, awaited, told>>
  <2>1. Live' = Live BY <1>4 DEF Live
  <2> QED BY <1>2, <1>4, <2>1 DEF AloneInv
<1>5. CASE AskStop
  <2>1. Live' = Live BY <1>5 DEF AskStop, Live
  <2> QED BY <1>2, <1>5, <2>1 DEF AskStop, AloneInv
<1>6. CASE Stopped \/ GivesUp
  <2>1. Live' = Live /\ pc' = pc /\ record' = record BY <1>6 DEF Stopped, GivesUp, files, Live
  <2>2. awaited' = None /\ told' \subseteq told \cup {awaited}
        /\ (told' = told \/ (awaited # None /\ record = None))
    BY <1>6 DEF Stopped, GivesUp
  <2>3. \A l \in told' : pc[l] \in Over BY <1>2, <2>2
  <2> QED BY <1>2, <2>1, <2>2, <2>3 DEF AloneInv
<1>7. ASSUME NEW l \in Run, Open(l) PROVE AloneInv'
  <2>1. /\ Live = {} /\ pc[l] = "off" /\ Goto(l, "check") /\ awaited' = awaited /\ told' = told
    BY <1>7 DEF Open
  <2>2. "check" \in Place BY DEF Place, Starting
  <2>3. \A m \in Run : pc'[m] = IF m = l THEN "check" ELSE pc[m] BY <2>1, <2>2, Went
  <2>4. \A m \in Run : ~Is(m) BY <1>0, <2>1
  <2>5. Live' \subseteq {l} BY <2>3, <2>4 DEF Live
  <2>6. \A m \in Run : pc'[m] # "watch" BY <2>3, <2>4
  <2>7. \A m \in Run : pc[m] \in Over => pc'[m] \in Over BY <2>1, <2>3 DEF Over
  <2>8. awaited # None => pc[awaited] \in Over BY <1>0, <2>4 DEF RecordInv, Recorded, Over
  <2> QED BY <1>0, <1>2, <2>1, <2>5, <2>6, <2>7, <2>8 DEF AloneInv
<1>8. ASSUME NEW l \in Run, Preflight(l) \/ Frontend(l) \/ StartModel(l) \/ NotReady(l) \/ Watch(l) \/ Kill(l)
      PROVE  AloneInv'
  <2>1. {"build", "refused", "load", "model", "stop worker", "killed"} \subseteq Place \ {"off", "watch"}
    BY DEF Place, Starting, Stopping, Role
  <2>2. l \in Live
    BY <1>0, <1>8 DEF Preflight, Frontend, StartModel, NotReady, Watch, Kill, Served, Starting, Role
  <2>3. UNCHANGED <<record, awaited, told>>
    BY <1>8 DEF Preflight, Frontend, StartModel, NotReady, Watch, Kill, files, user
  <2>4. \E where \in Place \ {"off", "watch"} : Goto(l, where)
    BY <1>8, <2>1 DEF Preflight, Frontend, StartModel, NotReady, Watch, Kill
  <2> QED BY <1>3, <2>2, <2>3, <2>4
<1>9. ASSUME NEW l \in Run, WriteRecord(l) PROVE AloneInv'
  <2>1. {"watch", "stop worker"} \subseteq Place \ {"off"} BY DEF Place, Stopping
  <2>2. l \in Live BY <1>0, <1>9 DEF WriteRecord, Starting, Role
  <2> QED BY <1>3, <1>9, <2>1, <2>2 DEF WriteRecord, user
<1>10. ASSUME NEW l \in Run, Clean(l) PROVE AloneInv'
  <2>1. "end" \in Place \ {"off"} /\ "end" \in Over BY DEF Place, Over
  <2>2. l \in Live BY <1>0, <1>10 DEF Clean, Stopping
  <2> QED BY <1>3, <1>10, <2>1, <2>2 DEF Clean, user
<1>11. ASSUME NEW l \in Run, NEW r \in Served, Ready(l, r) PROVE AloneInv'
  <2>1. After(r) \in Place \ {"off", "watch"} /\ l \in Live
    BY <1>0, <1>11 DEF Ready, After, Served, Place, Starting, Role
  <2> QED BY <1>3, <1>11, <2>1 DEF Ready, files, user
<1>12. ASSUME NEW l \in Run, NEW r \in Role, Stop(l, r) \/ Stuck(l, r) PROVE AloneInv'
  <2>1. {AfterStop(r), "stuck"} \subseteq Place \ {"off", "watch"} BY DEF AfterStop, Place, Stopping, Role
  <2>2. l \in Live BY <1>0, <1>12 DEF Stop, Stuck, StopStep, Role, Stopping
  <2> QED BY <1>3, <1>12, <2>1, <2>2 DEF Stop, Stuck, files, user
<1>13. ASSUME NEW l \in Run, NEW r \in Role, Bind(l, r) \/ Crash(l, r) PROVE AloneInv'
  BY <1>4, <1>13 DEF Bind, Crash, files, user
<1>14. CASE UNCHANGED vars BY <1>4, <1>14 DEF vars
<1>15. Served \subseteq Role BY DEF Served, Role
<1> QED BY <1>5, <1>6, <1>7, <1>8, <1>9, <1>10, <1>11, <1>12, <1>13, <1>14, <1>15 DEF Next, Launch

-----------------------------------------------------------------------------
\* What runs keep, however many, however they overlap and whatever fails.
THEOREM Invariance == Spec => []LauncherInv
<1>1. LauncherInv /\ [Next]_vars => LauncherInv'
  BY LauncherTypes, ChildStep, RecordStep, AloneStep DEF LauncherInv
<1> QED BY LauncherInit, <1>1, PTL DEF Spec

\* The variables keep their types.
THEOREM TypeCorrect == Spec => []TypeOK
BY Invariance, PTL DEF LauncherInv

\* The finally block and _stop leave no child behind.
THEOREM NoneLeftBehind == Spec => []NoOrphans
<1>1. LauncherInv => NoOrphans BY DEF LauncherInv, ChildInv, ChildOf, NoOrphans, Role, Alive
<1> QED BY <1>1, Invariance, PTL

\* What stop.ps1 says is so, while launchers do not overlap.
THEOREM ClosedIsStopped == Spec => []ClosedMeansStopped
<1>1. LauncherInv => ClosedMeansStopped
  <2> SUFFICES ASSUME LauncherInv, ~overlapped, NEW l \in told, pc[l] \notin {"killed", "stuck"}
               PROVE  \A r \in Role : ~Alive(l, r)
    BY DEF ClosedMeansStopped
  <2>1. l \in Run /\ pc[l] = "end" BY DEF LauncherInv, TypeOK, AloneInv, Over
  <2> QED BY <2>1 DEF LauncherInv, ChildInv, ChildOf, Role
<1> QED BY <1>1, Invariance, PTL

\* stop.ps1 finds what open.ps1 started, while launchers do not overlap.
THEOREM WatchedIsFound == Spec => []FoundWhenAlone
<1>1. LauncherInv => FoundWhenAlone BY DEF LauncherInv, AloneInv, FoundWhenAlone, RunIsRecorded
<1> QED BY <1>1, Invariance, PTL
=============================================================================
