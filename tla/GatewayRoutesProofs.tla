------------------------ MODULE GatewayRoutesProofs ------------------------
(***************************************************************************)
(* The history of a route knows its current release, a rollback that meets  *)
(* no other write undoes the last switch, the gateway implements            *)
(* ServedRoutes and serves each request by its most specific route, for any *)
(* number of routes, releases, sites and handlers.                          *)
(*                                                                          *)
(* Writes read their row some time before they commit. What makes them      *)
(* right is that what they read cannot be taken back: the history and the    *)
(* versions only grow, a release never loses its backends, a route its row.  *)
(***************************************************************************)
EXTENDS Gateway, SequenceTheorems, WellFoundedInduction, TLAPS

Switch == [from: Release \cup {None}, to: Release]

TableTypes ==
    /\ db \in [Route -> Row \cup {None}]
    /\ DOMAIN backs = Route /\ \A r \in Route : DOMAIN backs[r] = Release
    /\ hist \in [Route -> Seq(Switch)]
    /\ DOMAIN versions = Route

\* A release of a route that has been switched to, and has backends.
Reached(r, v) ==
    /\ v \in Release
    /\ \E k \in 1..Len(hist[r]) : hist[r][k].to = v
    /\ backs[r][v] # NoBackends

\* What a process in state st has read.
UpsertInv(st) ==
    /\ st.req \in Request
    /\ st.old = None \/ Reached(st.req.route, st.old)

\* The entry a rollback has seen last decides where it goes back to.
RollbackInv(st) ==
    /\ st.route \in Route /\ db[st.route] # None
    /\ Reached(st.route, st.old) /\ Reached(st.route, st.target)
    /\ st.target # st.old
    /\ st.seen \in 1..Len(hist[st.route])
    /\ hist[st.route][st.seen].to = st.old /\ hist[st.route][st.seen].from # None =>
          st.target = hist[st.route][st.seen].from

ReadRows(st) ==
    /\ DOMAIN st.rows \subseteq Route
    /\ \A r \in DOMAIN st.rows : st.rows[r] \in Row

\* A cached route is one that was committed, as a whole.
WasCommitted(s) ==
    s.route \in Route /\ [release |-> s.release, live |-> s.backends] \in versions[s.route]

StateInv(st) ==
    /\ st.pc = "upsert" => UpsertInv(st)
    /\ st.pc = "rollback" => RollbackInv(st)
    /\ st.pc = "fill" => ReadRows(st)
    /\ st.pc = "install" => \A s \in st.snaps : WasCommitted(s)

ProcInv ==
    /\ DOMAIN proc = Process
    /\ \A st : (\E p \in Process : proc[p] = st) => StateInv(st)

\* The current release has been switched to, and so has every release that was
\* switched away from.
Mentioned(r) ==
    (IF db[r] = None THEN {} ELSE {db[r].release}) \cup
    ({hist[r][k].from : k \in 1..Len(hist[r])} \ {None})

HistoryInv ==
    \A r \in Route :
        /\ \A v \in Mentioned(r) : Reached(r, v)
        /\ \A k \in 1..Len(hist[r]) : hist[r][k].from # hist[r][k].to

VersionsInv ==
    /\ \A r \in Route, v \in Release :
          backs[r][v] # NoBackends => [release |-> v, live |-> Live(backs[r][v])] \in versions[r]
    /\ \A s \in cache : WasCommitted(s)

Inv == TableTypes /\ ProcInv /\ HistoryInv /\ VersionsInv
-----------------------------------------------------------------------------
\* What no step takes back.
Grows ==
    /\ \A r \in Route : /\ Len(hist[r]) <= Len(hist'[r])
                        /\ \A k \in 1..Len(hist[r]) : hist'[r][k] = hist[r][k]
                        /\ db[r] # None => db'[r] # None
                        /\ versions[r] \subseteq versions'[r]
    /\ \A r \in Route, v \in Release : backs[r][v] # NoBackends => backs'[r][v] # NoBackends

LEMMA HistoryLength ==
    ASSUME TableTypes, NEW r \in Route
    PROVE  hist[r] \in Seq(Switch) /\ Len(hist[r]) \in Nat
  BY DEF TableTypes

LEMMA ReachedStays ==
    ASSUME TableTypes, TableTypes', Grows, NEW r \in Route, NEW v, Reached(r, v)
    PROVE  Reached(r, v)'
  <1>1. PICK k \in 1..Len(hist[r]) : hist[r][k].to = v
    BY DEF Reached
  <1>2. Len(hist[r]) \in Nat /\ Len(hist'[r]) \in Nat
    BY DEF TableTypes
  <1>3. k \in 1..Len(hist'[r]) /\ hist'[r][k].to = v
    BY <1>1, <1>2 DEF Grows
  <1>4. v \in Release /\ backs'[r][v] # NoBackends
    BY DEF Reached, Grows
  <1> QED
    BY <1>3, <1>4 DEF Reached

\* What a process has read stays true.
LEMMA StateStays ==
    ASSUME TableTypes, TableTypes', Grows, NEW st, StateInv(st)
    PROVE  StateInv(st)'
  <1>1. ASSUME st.pc = "upsert" PROVE UpsertInv(st)'
    <2>1. UpsertInv(st)
      BY <1>1 DEF StateInv
    <2>2. st.req.route \in Route
      BY <2>1, RoutesAssumption DEF UpsertInv
    <2> QED
      BY <2>1, <2>2, ReachedStays DEF UpsertInv
  <1>2. ASSUME st.pc = "rollback" PROVE RollbackInv(st)'
    <2>1. RollbackInv(st)
      BY <1>2 DEF StateInv
    <2>2. /\ st.route \in Route /\ db[st.route] # None
          /\ Reached(st.route, st.old) /\ Reached(st.route, st.target)
          /\ st.seen \in 1..Len(hist[st.route])
      BY <2>1 DEF RollbackInv
    <2>3. Reached(st.route, st.old)' /\ Reached(st.route, st.target)'
      BY <2>2, ReachedStays
    <2>4. Len(hist[st.route]) \in Nat /\ Len(hist'[st.route]) \in Nat
      BY <2>2 DEF TableTypes
    <2>5. /\ st.seen \in 1..Len(hist'[st.route])
          /\ hist'[st.route][st.seen] = hist[st.route][st.seen] /\ db'[st.route] # None
      BY <2>2, <2>4 DEF Grows
    <2> QED
      BY <2>1, <2>2, <2>3, <2>5 DEF RollbackInv
  <1>3. st.pc = "fill" => ReadRows(st)'
    BY DEF StateInv, ReadRows
  <1>4. \A s : WasCommitted(s) => WasCommitted(s)'
    BY DEF WasCommitted, Grows
  <1> QED
    BY <1>1, <1>2, <1>3, <1>4 DEF StateInv

\* So a step that moves one process has to show only that process's new state.
LEMMA OneProcess ==
    ASSUME Inv, TableTypes', Grows, NEW p \in Process, NEW st,
           proc' = [proc EXCEPT ![p] = st], StateInv(st)'
    PROVE  ProcInv'
  <1>1. ASSUME NEW x, NEW q \in Process, proc'[q] = x PROVE StateInv(x)'
    <2>1. CASE q = p
      BY <1>1, <2>1 DEF Inv, ProcInv
    <2>2. CASE q # p
      <3>1. StateInv(x)
        BY <1>1, <2>2 DEF Inv, ProcInv
      <3> QED
        BY <3>1, StateStays DEF Inv
    <2> QED
      BY <2>1, <2>2
  <1>2. DOMAIN proc' = Process
    BY DEF Inv, ProcInv
  <1> QED
    BY <1>1, <1>2 DEF ProcInv

\* The tables are as before.
SameTables == UNCHANGED <<db, backs, hist, versions>>

LEMMA SameTablesKeep ==
    ASSUME Inv, SameTables
    PROVE  TableTypes' /\ HistoryInv' /\ Grows
           /\ \A s : WasCommitted(s) => WasCommitted(s)'
           /\ \A r, v : Reached(r, v)' <=> Reached(r, v)
  <1>1. TableTypes'
    BY DEF SameTables, Inv, TableTypes
  <1>2. \A r, v : Reached(r, v)' <=> Reached(r, v)
    BY DEF SameTables, Reached
  <1>3. HistoryInv'
    BY <1>2 DEF SameTables, Inv, HistoryInv, Mentioned
  <1>4. Grows
    <2>1. \A r \in Route : Len(hist[r]) \in Nat
      BY HistoryLength DEF Inv
    <2> QED
      BY <2>1 DEF SameTables, Grows
  <1> QED
    BY <1>1, <1>2, <1>3, <1>4 DEF SameTables, WasCommitted

\* A step that changes no table.
LEMMA ReadStep ==
    ASSUME Inv, SameTables, cache' = cache, NEW p \in Process, NEW st,
           proc' = [proc EXCEPT ![p] = st], StateInv(st)
    PROVE  Inv'
  <1>1. TableTypes' /\ HistoryInv' /\ Grows /\ TableTypes
    BY SameTablesKeep DEF Inv
  <1>2. StateInv(st)'
    BY <1>1, StateStays
  <1>3. ProcInv'
    BY <1>1, <1>2, OneProcess
  <1>4. VersionsInv'
    BY SameTablesKeep DEF SameTables, Inv, VersionsInv
  <1> QED
    BY <1>1, <1>3, <1>4 DEF Inv

LEMMA Restful ==
    ASSUME NEW st, st.pc \in {"idle", "load"}
    PROVE  StateInv(st) /\ StateInv(st)'
  BY DEF StateInv
-----------------------------------------------------------------------------
\* The history entry of a switch, and the backends of the release switched to,
\* leave the history as it should be. (A switch to the release that was read
\* leaves no entry: that release has been reached.)
LEMMA Switched ==
    ASSUME Inv, TableTypes', Grows, NEW r \in Route, NEW w \in Row,
           db' = [db EXCEPT ![r] = w],
           NEW old, old = None \/ Reached(r, old),
           backs'[r][w.release] # NoBackends,
           \/ old = w.release /\ hist' = hist
           \/ old # w.release /\ hist' = [hist EXCEPT ![r] = Append(@, [from |-> old, to |-> w.release])]
    PROVE  HistoryInv'
  <1>1. TableTypes /\ HistoryInv /\ w.release \in Release /\ w # None
    BY RoutesAssumption DEF Inv, Row
  <1>2. \A x \in Route : \A v : Reached(x, v) => Reached(x, v)'
    BY <1>1, ReachedStays
  <1>3. Reached(r, w.release)'
    <2>1. CASE old = w.release
      BY <1>1, <1>2, <2>1, RoutesAssumption
    <2>2. CASE old # w.release
      <3>1. hist'[r] = Append(hist[r], [from |-> old, to |-> w.release]) /\ hist[r] \in Seq(Switch)
        BY <1>1, <2>2 DEF TableTypes
      <3>2. [from |-> old, to |-> w.release] \in Switch
        BY <1>1 DEF Switch, Reached
      <3>3. Len(hist'[r]) \in 1..Len(hist'[r]) /\ hist'[r][Len(hist'[r])].to = w.release
        BY <3>1, <3>2
      <3> QED
        BY <1>1, <3>3 DEF Reached
    <2> QED
      BY <2>1, <2>2
  <1>4. ASSUME NEW x \in Route, NEW k \in 1..Len(hist'[x])
        PROVE  \/ k \in 1..Len(hist[x]) /\ hist'[x][k] = hist[x][k]
               \/ x = r /\ old # w.release /\ hist'[x][k] = [from |-> old, to |-> w.release]
    <2>1. CASE k \in 1..Len(hist[x])
      BY <2>1 DEF Grows
    <2>2. CASE k \notin 1..Len(hist[x])
      <3>1. hist[x] \in Seq(Switch)
        BY <1>1 DEF TableTypes
      <3>2. x = r /\ old # w.release
        BY <1>1, <2>2, <1>4 DEF TableTypes
      <3>3. hist'[x] = Append(hist[x], [from |-> old, to |-> w.release])
        BY <1>1, <3>2 DEF TableTypes
      <3>4. [from |-> old, to |-> w.release] \in Switch
        BY <1>1 DEF Switch, Reached
      <3>5. hist'[x][k] = [from |-> old, to |-> w.release]
        BY <2>2, <3>1, <3>3, <3>4, <1>4
      <3> QED
        BY <3>2, <3>5
    <2> QED
      BY <2>1, <2>2
  <1>5. ASSUME NEW x \in Route, NEW v \in Mentioned(x)' PROVE Reached(x, v)'
    <2>1. CASE db'[x] # None /\ v = db'[x].release
      <3>1. CASE x = r
        <4>1. db'[x] = w
          BY <1>1, <3>1 DEF TableTypes
        <4> QED
          BY <1>3, <2>1, <3>1, <4>1
      <3>2. CASE x # r
        <4>1. db'[x] = db[x]
          BY <1>1, <3>2 DEF TableTypes
        <4>2. v \in Mentioned(x)
          BY <2>1, <4>1 DEF Mentioned
        <4> QED
          BY <1>1, <1>2, <4>2 DEF HistoryInv
      <3> QED
        BY <3>1, <3>2
    <2>2. ASSUME NEW k \in 1..Len(hist'[x]), v = hist'[x][k].from, v # None PROVE Reached(x, v)'
      <3>1. CASE k \in 1..Len(hist[x]) /\ hist'[x][k] = hist[x][k]
        <4>1. v \in Mentioned(x)
          BY <2>2, <3>1 DEF Mentioned
        <4> QED
          BY <1>1, <1>2, <4>1 DEF HistoryInv
      <3>2. CASE x = r /\ hist'[x][k] = [from |-> old, to |-> w.release]
        <4>1. v = old
          BY <2>2, <3>2
        <4> QED
          BY <1>2, <2>2, <3>2, <4>1
      <3> QED
        BY <1>4, <3>1, <3>2
    <2> QED
      BY <2>1, <2>2 DEF Mentioned
  <1>6. ASSUME NEW x \in Route, NEW k \in 1..Len(hist'[x]) PROVE hist'[x][k].from # hist'[x][k].to
    <2>1. CASE k \in 1..Len(hist[x]) /\ hist'[x][k] = hist[x][k]
      BY <1>1, <2>1 DEF HistoryInv
    <2>2. CASE old # w.release /\ hist'[x][k] = [from |-> old, to |-> w.release]
      BY <2>2
    <2> QED
      BY <1>4, <2>1, <2>2
  <1> QED
    BY <1>5, <1>6 DEF HistoryInv

\* What a commit leaves to the other conjuncts.
LEMMA CommitStep ==
    ASSUME Inv, TableTypes', Grows, HistoryInv', cache' = cache, NEW p \in Process,
           proc' = [proc EXCEPT ![p] = [pc |-> "load"]],
           \A r \in Route, v \in Release :
              backs'[r][v] # NoBackends => [release |-> v, live |-> Live(backs'[r][v])] \in versions'[r]
    PROVE  Inv'
  <1>1. PICK st : st = [pc |-> "load"]
    OBVIOUS
  <1>2. StateInv(st)'
    BY <1>1, Restful
  <1>3. ProcInv'
    BY <1>1, <1>2, OneProcess
  <1>4. \A s : WasCommitted(s) => WasCommitted(s)'
    BY DEF WasCommitted, Grows
  <1>5. VersionsInv'
    BY <1>4 DEF Inv, VersionsInv
  <1> QED
    BY <1>3, <1>5 DEF Inv

LEMMA UpsertCommitStep ==
    ASSUME Inv, NEW p \in Process, UpsertCommit(p)
    PROVE  Inv'
  <1>1. TableTypes /\ HistoryInv /\ VersionsInv
    BY DEF Inv
  <1>2. PICK r, w, b, old : /\ r = proc[p].req.route /\ w = proc[p].req.row
                            /\ b = proc[p].req.backends /\ old = proc[p].old
    OBVIOUS
  <1>3. /\ r \in Route /\ w \in Row /\ b # NoBackends
        /\ old = None \/ Reached(r, old)
    <2>1. UpsertInv(proc[p])
      BY DEF UpsertCommit, At, Inv, ProcInv, StateInv
    <2>2. proc[p].req \in Request /\ (old = None \/ Reached(r, old))
      BY <1>2, <2>1 DEF UpsertInv
    <2>3. r \in Route /\ w \in Row /\ DOMAIN b # {}
      BY <1>2, <2>2, RoutesAssumption
    <2> QED
      BY <2>2, <2>3 DEF NoBackends
  <1>4. /\ db' = [db EXCEPT ![r] = w]
        /\ backs' = [backs EXCEPT ![r][w.release] = b]
        /\ versions' = [versions EXCEPT ![r] = @ \cup {[release |-> w.release, live |-> Live(b)]}]
        /\ \/ old = w.release /\ hist' = hist
           \/ old # w.release /\ hist' = [hist EXCEPT ![r] = Append(@, [from |-> old, to |-> w.release])]
        /\ proc' = [proc EXCEPT ![p] = [pc |-> "load"]]
        /\ cache' = cache
    BY <1>2 DEF UpsertCommit, InsertHistory
  <1>5. w.release \in Release /\ w # None
    BY <1>3, RoutesAssumption DEF Row
  <1>6. [from |-> old, to |-> w.release] \in Switch
    BY <1>3, <1>5 DEF Switch, Reached
  <1>7. TableTypes'
    <2>1. db' \in [Route -> Row \cup {None}]
      BY <1>1, <1>3, <1>4 DEF TableTypes
    <2>2. DOMAIN backs' = Route /\ \A x \in Route : DOMAIN backs'[x] = Release
      BY <1>1, <1>3, <1>4 DEF TableTypes
    <2>3. hist' \in [Route -> Seq(Switch)]
      <3>1. CASE hist' = hist
        BY <1>1, <3>1 DEF TableTypes
      <3>2. CASE hist' = [hist EXCEPT ![r] = Append(@, [from |-> old, to |-> w.release])]
        BY <1>1, <1>3, <1>6, <3>2 DEF TableTypes
      <3> QED
        BY <1>4, <3>1, <3>2
    <2>4. DOMAIN versions' = Route
      BY <1>1, <1>4 DEF TableTypes
    <2> QED
      BY <2>1, <2>2, <2>3, <2>4 DEF TableTypes
  <1>8. \A x \in Route, v \in Release :
           backs'[x][v] = IF x = r /\ v = w.release THEN b ELSE backs[x][v]
    BY <1>1, <1>3, <1>4, <1>5 DEF TableTypes
  <1>9. \A x \in Route :
           versions'[x] = IF x = r THEN versions[x] \cup {[release |-> w.release, live |-> Live(b)]}
                                   ELSE versions[x]
    BY <1>1, <1>3, <1>4 DEF TableTypes
  <1>10. Grows
    <2>1. ASSUME NEW x \in Route
          PROVE  Len(hist[x]) <= Len(hist'[x]) /\ \A k \in 1..Len(hist[x]) : hist'[x][k] = hist[x][k]
      <3>1. CASE hist' = hist
        BY <1>1, <3>1 DEF TableTypes
      <3>2. CASE hist' = [hist EXCEPT ![r] = Append(@, [from |-> old, to |-> w.release])]
        BY <1>1, <1>3, <1>6, <3>2 DEF TableTypes
      <3> QED
        BY <1>4, <3>1, <3>2
    <2>2. \A x \in Route : db[x] # None => db'[x] # None
      BY <1>1, <1>3, <1>4, <1>5 DEF TableTypes
    <2> QED
      BY <1>3, <1>8, <1>9, <2>1, <2>2, ZenonT(40) DEF Grows
  <1>11. HistoryInv'
    <2>1. backs'[r][w.release] # NoBackends
      BY <1>3, <1>5, <1>8
    <2> QED
      BY <1>3, <1>4, <1>7, <1>10, <2>1, Switched
  <1>12. ASSUME NEW x \in Route, NEW v \in Release, backs'[x][v] # NoBackends
         PROVE  [release |-> v, live |-> Live(backs'[x][v])] \in versions'[x]
    <2>1. CASE x = r /\ v = w.release
      <3>1. backs'[x][v] = b /\ [release |-> w.release, live |-> Live(b)] \in versions'[x]
        BY <1>3, <1>5, <1>8, <1>9, <2>1
      <3> QED
        BY <2>1, <3>1
    <2>2. CASE ~(x = r /\ v = w.release)
      <3>1. backs'[x][v] = backs[x][v] /\ versions[x] \subseteq versions'[x]
        BY <1>8, <1>9, <2>2
      <3> QED
        BY <1>1, <1>12, <3>1 DEF VersionsInv
    <2> QED
      BY <2>1, <2>2
  <1> QED
    BY <1>4, <1>7, <1>10, <1>11, <1>12, CommitStep

LEMMA RollbackCommitStep ==
    ASSUME Inv, NEW p \in Process, RollbackCommit(p)
    PROVE  Inv'
  <1>1. TableTypes /\ HistoryInv /\ VersionsInv
    BY DEF Inv
  <1>2. PICK r, target, old : r = proc[p].route /\ target = proc[p].target /\ old = proc[p].old
    OBVIOUS
  <1>3. RollbackInv(proc[p])
    BY DEF RollbackCommit, At, Inv, ProcInv, StateInv
  <1>4. /\ r \in Route /\ db[r] # None /\ old # target
        /\ Reached(r, old) /\ Reached(r, target)
    BY <1>2, <1>3 DEF RollbackInv
  <1>5. PICK w : w = [db[r] EXCEPT !.release = target]
    OBVIOUS
  <1>6. target \in Release /\ w \in Row /\ w.release = target /\ w # None
    <2>1. db[r] \in Row /\ target \in Release
      BY <1>1, <1>4 DEF TableTypes, Reached
    <2> QED
      BY <1>5, <2>1, RoutesAssumption DEF Row
  <1>7. /\ db' = [db EXCEPT ![r] = w]
        /\ hist' = [hist EXCEPT ![r] = Append(@, [from |-> old, to |-> w.release])]
        /\ UNCHANGED <<backs, versions, cache>>
        /\ proc' = [proc EXCEPT ![p] = [pc |-> "load"]]
    BY <1>2, <1>5, <1>6 DEF RollbackCommit, InsertHistory
  <1>8. [from |-> old, to |-> w.release] \in Switch
    BY <1>4, <1>6 DEF Switch, Reached
  <1>9. TableTypes'
    BY <1>1, <1>4, <1>6, <1>7, <1>8 DEF TableTypes
  <1>10. Grows
    <2>1. ASSUME NEW x \in Route
          PROVE  Len(hist[x]) <= Len(hist'[x]) /\ \A k \in 1..Len(hist[x]) : hist'[x][k] = hist[x][k]
      BY <1>1, <1>4, <1>7, <1>8 DEF TableTypes
    <2>2. \A x \in Route : db[x] # None => db'[x] # None
      BY <1>1, <1>4, <1>6, <1>7 DEF TableTypes
    <2> QED
      BY <1>7, <2>1, <2>2 DEF Grows
  <1>11. HistoryInv'
    <2>1. backs'[r][w.release] # NoBackends
      BY <1>4, <1>6, <1>7 DEF Reached
    <2>2. old # w.release
      BY <1>4, <1>6
    <2> QED
      BY <1>4, <1>6, <1>7, <1>9, <1>10, <2>1, <2>2, Switched
  <1>12. \A x \in Route, v \in Release :
            backs'[x][v] # NoBackends => [release |-> v, live |-> Live(backs'[x][v])] \in versions'[x]
    BY <1>1, <1>7 DEF VersionsInv
  <1> QED
    BY <1>7, <1>9, <1>10, <1>11, <1>12, CommitStep

-----------------------------------------------------------------------------
\* The newest switch, when it leads to the release.
LEMMA NewestSwitch ==
    ASSUME TableTypes, NEW r \in Route, NEW release,
           Len(hist[r]) > 0,
           hist[r][Len(hist[r])].to = release, hist[r][Len(hist[r])].from \notin {None, release}
    PROVE  LastSwitchTo(r, release) = hist[r][Len(hist[r])].from
  <1> DEFINE found == {k \in 1..Len(hist[r]) :
                         hist[r][k].to = release /\ hist[r][k].from \notin {None, release}}
             n == Len(hist[r])
             x == CHOOSE k \in found : \A j \in found : j <= k
  <1>1. n \in Nat /\ n \in found /\ found \subseteq 1..n
    BY HistoryLength
  <1>2. LastSwitchTo(r, release) = hist[r][x].from
    BY <1>1 DEF LastSwitchTo
  <1> HIDE DEF found, n
  <1>3. \E k \in found : \A j \in found : j <= k
    <2>1. \A j \in found : j <= n
      BY <1>1
    <2> QED
      BY <1>1, <2>1
  <1>4. x \in found /\ \A j \in found : j <= x
    BY <1>3
  <1> HIDE DEF x
  <1>5. x = n
    BY <1>1, <1>4
  <1> QED
    BY <1>2, <1>5 DEF n

\* Every non-empty set of positions has a last one.
LEMMA LastPosition ==
    ASSUME NEW n \in Nat, NEW T \in SUBSET (1..n), T # {}
    PROVE  \E k \in T : \A j \in T : j <= k
  <1> DEFINE R == OpToRel(<, Nat)
             D == {m \in Nat : n - m \in T}
  <1>1. IsWellFoundedOn(R, Nat)
    BY NatLessThanWellFounded
  <1>2. PICK i \in T : TRUE
    OBVIOUS
  <1>3. n - i \in Nat /\ n - (n - i) = i
    BY <1>2
  <1>4. D \subseteq Nat /\ D # {}
    BY <1>2, <1>3
  <1> HIDE DEF R, D
  <1>5. PICK m \in D : \A d \in D : <<d, m>> \notin R
    BY <1>1, <1>4, WFMin
  <1>6. \A d \in D : ~(d < m)
    BY <1>4, <1>5 DEF R, OpToRel
  <1>7. m \in Nat /\ n - m \in T
    BY <1>5 DEF D
  <1>8. ASSUME NEW j \in T PROVE j <= n - m
    <2>1. n - j \in Nat /\ n - (n - j) = j
      OBVIOUS
    <2>2. n - j \in D
      BY <2>1 DEF D
    <2> QED
      BY <1>6, <1>7, <2>1, <2>2
  <1> QED
    BY <1>7, <1>8

\* Every switch a rollback may follow leads from another release of the route,
\* one that still has its backends.
LEMMA FoundSwitch ==
    ASSUME Inv, NEW r \in Route, NEW release, NEW target,
           target = LastSwitchTo(r, release), target # None
    PROVE  Reached(r, target) /\ target # release
  <1> DEFINE found == {k \in 1..Len(hist[r]) :
                         hist[r][k].to = release /\ hist[r][k].from \notin {None, release}}
             x == CHOOSE k \in found : \A j \in found : j <= k
  <1>1. Len(hist[r]) \in Nat /\ found \in SUBSET (1..Len(hist[r])) /\ found # {}
    BY HistoryLength, SMTT(40) DEF Inv, LastSwitchTo
  <1>2. target = hist[r][x].from
    BY <1>1, Zenon DEF LastSwitchTo
  <1>3. \E k \in found : \A j \in found : j <= k
    <2> HIDE DEF found
    <2> QED
      BY <1>1, LastPosition
  <1>4. x \in found
    <2> HIDE DEF found
    <2> QED
      BY <1>3
  <1>5. x \in 1..Len(hist[r]) /\ hist[r][x].from \notin {None, release}
    BY <1>4
  <1> HIDE DEF x
  <1>6. target \in Mentioned(r)
    BY <1>2, <1>5 DEF Mentioned
  <1> QED
    BY <1>2, <1>5, <1>6, SMTT(40) DEF Inv, HistoryInv

LEMMA UpsertReadStep ==
    ASSUME Inv, NEW p \in Process, NEW q \in Request, UpsertRead(p, q)
    PROVE  Inv'
  <1>1. PICK st : st = [pc |-> "upsert", req |-> q, old |-> Current(q.route)]
    OBVIOUS
  <1>2. q.route \in Route
    BY RoutesAssumption
  <1>3. st.old = None \/ Reached(q.route, st.old)
    BY <1>1, <1>2 DEF Current, Inv, HistoryInv, Mentioned
  <1>4. StateInv(st)
    BY <1>1, <1>3 DEF StateInv, UpsertInv
  <1> QED
    BY <1>1, <1>4, ReadStep DEF UpsertRead, SameTables

LEMMA RollbackReadStep ==
    ASSUME Inv, NEW p \in Process, NEW r \in Route, RollbackRead(p, r)
    PROVE  Inv'
  <1>1. PICK old, target, n : old = db[r].release /\ target = LastSwitchTo(r, old) /\ n = Len(hist[r])
    OBVIOUS
  <1>2. PICK st : st = [pc |-> "rollback", route |-> r, old |-> old, target |-> target, seen |-> n]
    OBVIOUS
  <1>3. db[r] # None /\ target # None /\ Current(r) = old
    BY <1>1 DEF RollbackRead, Current
  <1>4. Reached(r, old)
    BY <1>1, <1>3 DEF Inv, HistoryInv, Mentioned
  <1>5. Reached(r, target) /\ target # old
    BY <1>1, <1>3, FoundSwitch
  <1>6. n \in 1..Len(hist[r])
    <2>1. n \in Nat
      BY <1>1, HistoryLength DEF Inv
    <2> QED
      BY <1>1, <1>4, <2>1 DEF Reached
  <1>7. hist[r][n].to = old /\ hist[r][n].from # None => target = hist[r][n].from
    <2> SUFFICES ASSUME hist[r][n].to = old, hist[r][n].from # None PROVE target = hist[r][n].from
      OBVIOUS
    <2>1. hist[r][n].from # old
      BY <1>6 DEF Inv, HistoryInv
    <2>2. Len(hist[r]) > 0 /\ TableTypes
      BY <1>1, <1>6, HistoryLength DEF Inv
    <2> QED
      BY <1>1, <2>1, <2>2, NewestSwitch
  <1>8. StateInv(st)
    BY <1>2, <1>3, <1>4, <1>5, <1>6, <1>7 DEF StateInv, RollbackInv
  <1>9. proc' = [proc EXCEPT ![p] = st]
    BY <1>1, <1>2, <1>3 DEF RollbackRead
  <1> QED
    BY <1>8, <1>9, ReadStep DEF RollbackRead, SameTables

\* The steps of a refresh, and failures.
LEMMA RefreshSteps ==
    ASSUME Inv, NEW p \in Process,
           WriteFails(p) \/ RefreshStep(p) \/ RefreshFails(p) \/ (p = Loop /\ Tick)
    PROVE  Inv'
  <1>1. CASE WriteFails(p) \/ RefreshFails(p) \/ (p = Loop /\ Tick)
    <2>1. PICK st : proc' = [proc EXCEPT ![p] = st] /\ st.pc \in {"idle", "load"}
      <3>1. Idle.pc \in {"idle", "load"} /\ [pc |-> "load"].pc \in {"idle", "load"}
        BY DEF Idle
      <3>2. proc' = [proc EXCEPT ![p] = Idle] \/ proc' = [proc EXCEPT ![p] = [pc |-> "load"]]
        BY <1>1 DEF WriteFails, RefreshFails, Tick
      <3> QED
        BY <3>1, <3>2
    <2>2. SameTables /\ cache' = cache
      BY <1>1 DEF WriteFails, RefreshFails, Tick, SameTables
    <2>3. StateInv(st)
      BY <2>1 DEF StateInv
    <2> QED
      BY <2>1, <2>2, <2>3, ReadStep
  <1>2. CASE LoadEnabledRoutes(p)
    <2>1. PICK st : st = [pc |-> "fill", rows |-> [r \in {q \in Route : db[q] # None /\ db[q].enabled} |-> db[r]]]
      OBVIOUS
    <2>2. ReadRows(st)
      BY <2>1 DEF ReadRows, Inv, TableTypes
    <2>3. StateInv(st)
      BY <2>1, <2>2 DEF StateInv
    <2> QED
      BY <1>2, <2>1, <2>3, ReadStep DEF LoadEnabledRoutes, SameTables
  <1>3. CASE LoadSnapshots(p)
    <2> DEFINE read == proc[p].rows
               all  == {ToSnapshot(r, read[r]) : r \in DOMAIN read}
    <2>1. PICK st : st = [pc |-> "install", snaps |-> {s \in all : s.backends # {}}]
      OBVIOUS
    <2>2. ReadRows(proc[p])
      BY <1>3 DEF LoadSnapshots, At, Inv, ProcInv, StateInv
    <2>3. ASSUME NEW s \in st.snaps PROVE WasCommitted(s)
      <3>1. PICK r \in DOMAIN read : s = ToSnapshot(r, read[r])
        BY <2>1, <2>3
      <3>2. s.backends # {}
        BY <2>1, <2>3
      <3>3. r \in Route /\ read[r] \in Row
        BY <2>2 DEF ReadRows
      <3>4. PICK v : v = read[r].release
        OBVIOUS
      <3>5. /\ v \in Release
            /\ s.route = r /\ s.release = v /\ s.backends = Live(backs[r][v])
        BY <3>1, <3>3, <3>4 DEF Row, ToSnapshot
      <3>6. backs[r][v] # NoBackends
        BY <3>2, <3>5 DEF Live, NoBackends
      <3> QED
        BY <3>3, <3>5, <3>6 DEF Inv, VersionsInv, WasCommitted
    <2>4. StateInv(st)
      BY <2>1, <2>3 DEF StateInv
    <2>5. proc' = [proc EXCEPT ![p] = st]
      BY <1>3, <2>1 DEF LoadSnapshots
    <2> QED
      BY <1>3, <2>4, <2>5, ReadStep DEF LoadSnapshots, SameTables
  <1>4. CASE Install(p)
    <2>1. SameTables /\ proc' = [proc EXCEPT ![p] = Idle] /\ cache' = proc[p].snaps
      BY <1>4 DEF Install, SameTables
    <2>2. \A s \in cache' : WasCommitted(s)
      BY <1>4, <2>1 DEF Install, At, Inv, ProcInv, StateInv
    <2>3. /\ TableTypes' /\ HistoryInv' /\ Grows
          /\ \A s : WasCommitted(s) => WasCommitted(s)'
      BY <2>1, SameTablesKeep
    <2>4. VersionsInv'
      BY <2>1, <2>2, <2>3 DEF SameTables, Inv, VersionsInv
    <2>5. PICK st : st = Idle
      OBVIOUS
    <2>6. StateInv(st)'
      BY <2>5, Restful DEF Idle
    <2>7. ProcInv'
      BY <2>1, <2>3, <2>5, <2>6, OneProcess
    <2> QED
      BY <2>3, <2>4, <2>7 DEF Inv
  <1> QED
    BY <1>1, <1>2, <1>3, <1>4 DEF RefreshStep
-----------------------------------------------------------------------------
LEMMA Starts == RoutesInit => Inv
  <1> SUFFICES ASSUME RoutesInit PROVE Inv
    OBVIOUS
  <1>1. TableTypes
    BY DEF RoutesInit, TableTypes
  <1>2. ProcInv
    BY DEF RoutesInit, ProcInv, StateInv, Idle
  <1>3. HistoryInv
    BY DEF RoutesInit, HistoryInv, Mentioned
  <1>4. VersionsInv
    BY DEF RoutesInit, VersionsInv
  <1> QED
    BY <1>1, <1>2, <1>3, <1>4 DEF Inv

LEMMA Steps == Inv /\ [RoutesNext]_routeVars => Inv'
  <1> SUFFICES ASSUME Inv, [RoutesNext]_routeVars PROVE Inv'
    OBVIOUS
  <1>1. Admin \subseteq Process /\ Loop \in Process
    BY DEF Process
  <1>2. CASE RoutesNext
    BY <1>1, <1>2, UpsertReadStep, RollbackReadStep, UpsertCommitStep, RollbackCommitStep, RefreshSteps
       DEF RoutesNext
  <1>3. CASE UNCHANGED routeVars
    <2>1. SameTables /\ cache' = cache /\ proc' = proc
      BY <1>3 DEF routeVars, SameTables
    <2>2. TableTypes' /\ HistoryInv' /\ Grows /\ TableTypes
      BY <2>1, SameTablesKeep DEF Inv
    <2>3. \A st : StateInv(st) => StateInv(st)'
      BY <2>2, StateStays
    <2>4. ProcInv'
      BY <2>1, <2>3 DEF Inv, ProcInv
    <2>5. VersionsInv'
      BY <2>1, SameTablesKeep DEF SameTables, Inv, VersionsInv
    <2> QED
      BY <2>2, <2>4, <2>5 DEF Inv
  <1> QED
    BY <1>2, <1>3

LEMMA Invariant == RoutesSpec => []Inv
  BY Starts, Steps, PTL DEF RoutesSpec

\* What the history must know for the transactions is what a rollback needs of it.
LEMMA KnowsCurrent == Inv => HistoryKnowsCurrent
  <1> SUFFICES ASSUME Inv, NEW r \in Route
               PROVE  /\ db[r] # None =>
                            /\ \E k \in 1..Len(hist[r]) : hist[r][k].to = Current(r)
                            /\ backs[r][Current(r)] # NoBackends
                      /\ \A k \in 1..Len(hist[r]) :
                            /\ hist[r][k].from # hist[r][k].to
                            /\ hist[r][k].from # None => backs[r][hist[r][k].from] # NoBackends
    BY DEF HistoryKnowsCurrent
  <1>1. \A v \in Mentioned(r) : Reached(r, v)
    BY DEF Inv, HistoryInv
  <1>2. db[r] # None => Current(r) \in Mentioned(r)
    BY DEF Current, Mentioned
  <1>3. \A k \in 1..Len(hist[r]) : hist[r][k].from # None => hist[r][k].from \in Mentioned(r)
    BY DEF Mentioned
  <1> QED
    BY <1>1, <1>2, <1>3 DEF Reached, Inv, HistoryInv

\* Whatever transactions of Upsert and Rollback overlapped, the history knows the
\* current release, and no release it leads back to has lost its backends.
THEOREM HistoryIsKnown == RoutesSpec => []HistoryKnowsCurrent
  BY KnowsCurrent, Invariant, PTL

\* A Rollback that meets no other write goes back to the release the last switch
\* came from, and records the reverse of it.
UndoesLastSwitch(p) ==
    LET r == proc[p].route
        last == Last(hist[r])
    IN  proc'[p].pc = "load" /\ proc[p].old = Current(r)
          /\ last.to = Current(r) /\ last.from # None /\ proc[p].seen = Len(hist[r])
        => /\ db'[r].release = last.from
           /\ Last(hist'[r]) = [from |-> last.to, to |-> last.from]

LEMMA RollbackUndoes ==
    ASSUME Inv, RoutesNext, NEW p \in Admin, At(p, "rollback")
    PROVE  UndoesLastSwitch(p)
  <1> DEFINE r == proc[p].route
             n == Len(hist[r])
             last == Last(hist[r])
  <1> SUFFICES ASSUME proc'[p].pc = "load", proc[p].old = Current(r),
                      last.to = Current(r), last.from # None, proc[p].seen = n
               PROVE  /\ db'[r].release = last.from
                      /\ Last(hist'[r]) = [from |-> last.to, to |-> last.from]
    BY DEF UndoesLastSwitch
  <1>1. DOMAIN proc = Process /\ p \in Process /\ p # Loop /\ proc[p].pc = "rollback" /\ TableTypes
    BY RoutesAssumption DEF Inv, ProcInv, Process, At
  <1>2. RollbackInv(proc[p])
    BY <1>1 DEF Inv, ProcInv, StateInv
  <1>3. RollbackCommit(p)
    <2>2. ~WriteFails(p) /\ ~RefreshFails(p)
      BY <1>1 DEF WriteFails, RefreshFails, Idle
    <2>3. ~UpsertCommit(p) /\ ~LoadEnabledRoutes(p) /\ ~LoadSnapshots(p) /\ ~Install(p) /\ ~Tick
      BY <1>1 DEF UpsertCommit, LoadEnabledRoutes, LoadSnapshots, Install, Tick, At
    <2>4. \A q \in Request : ~UpsertRead(p, q)
      BY <1>1 DEF UpsertRead, At
    <2>5. \A x \in Route : ~RollbackRead(p, x)
      BY <1>1 DEF RollbackRead, At
    <2>6. ASSUME NEW q \in Process, q # p PROVE
            /\ \A y \in Request : ~UpsertRead(q, y)
            /\ \A x \in Route : ~RollbackRead(q, x)
            /\ ~UpsertCommit(q) /\ ~RollbackCommit(q) /\ ~WriteFails(q)
            /\ ~RefreshStep(q) /\ ~RefreshFails(q)
      BY <1>1, <2>6 DEF UpsertRead, RollbackRead, UpsertCommit, RollbackCommit, WriteFails,
             RefreshStep, LoadEnabledRoutes, LoadSnapshots, Install, RefreshFails
    <2> QED
      BY <1>1, <2>2, <2>3, <2>4, <2>5, <2>6 DEF RoutesNext, RefreshStep, Process
  <1>4. /\ r \in Route /\ db[r] # None /\ n \in 1..Len(hist[r]) /\ last = hist[r][n]
        /\ proc[p].target = last.from /\ proc[p].target \in Release
        /\ hist[r] \in Seq(Switch) /\ db[r] \in Row /\ proc[p].old \in Release
    BY <1>1, <1>2 DEF RollbackInv, Last, TableTypes, Reached
  <1>5. db'[r].release = proc[p].target
    BY <1>1, <1>3, <1>4 DEF RollbackCommit, TableTypes, Row
  <1>6. hist'[r] = Append(hist[r], [from |-> proc[p].old, to |-> proc[p].target])
    BY <1>1, <1>3, <1>4 DEF RollbackCommit, InsertHistory, TableTypes
  <1>7. [from |-> proc[p].old, to |-> proc[p].target] \in Switch
    BY <1>4 DEF Switch
  <1>8. Last(hist'[r]) = [from |-> proc[p].old, to |-> proc[p].target]
    BY <1>4, <1>6, <1>7 DEF Last
  <1> QED
    BY <1>4, <1>5, <1>8

\* A rollback that meets no other write undoes the last switch, so that two in a
\* row return to where they started, with any number of handlers at work.
THEOREM RollbackIsUndo == RoutesSpec => RollbackUndoesLastSwitch
  <1> DEFINE A == \A p \in {q \in Admin : At(q, "rollback")} :
                    LET r == proc[p].route
                        last == Last(hist[r])
                    IN  proc'[p].pc = "load" /\ proc[p].old = Current(r)
                          /\ last.to = Current(r) /\ last.from # None /\ proc[p].seen = Len(hist[r])
                        => /\ db'[r].release = last.from
                           /\ Last(hist'[r]) = [from |-> last.to, to |-> last.from]
  <1>1. Inv /\ [RoutesNext]_routeVars => [A]_routeVars
    BY RollbackUndoes DEF UndoesLastSwitch
  <1>2. RoutesSpec => [][A]_routeVars
    BY <1>1, Invariant, PTL DEF RoutesSpec
  <1> QED
    BY <1>2, PTL DEF RollbackUndoesLastSwitch
-----------------------------------------------------------------------------
(***************************************************************************)
(* The refinement.                                                          *)
(***************************************************************************)
LEMMA ServesOnlyCommitted ==
    ASSUME VersionsInv', NEW r \in Route
    PROVE  ServedVersion(r)' \in versions'[r] \cup {None}
  <1>1. CASE \E s \in cache' : s.route = r
    <2>1. PICK s : s = CHOOSE t \in cache' : t.route = r
      OBVIOUS
    <2>2. s \in cache' /\ s.route = r
      BY <1>1, <2>1
    <2>3. ServedVersion(r)' = [release |-> s.release, live |-> s.backends]
      BY <1>1, <2>1 DEF ServedVersion
    <2> QED
      BY <2>2, <2>3 DEF VersionsInv, WasCommitted
  <1>2. CASE ~\E s \in cache' : s.route = r
    BY <1>2 DEF ServedVersion
  <1> QED
    BY <1>1, <1>2

LEMMA RefinesInit == RoutesInit => Served!Init
  <1> SUFFICES ASSUME RoutesInit PROVE Served!Init
    OBVIOUS
  <1>1. \A r \in Route : ServedVersion(r) = None
    BY DEF RoutesInit, ServedVersion
  <1> QED
    BY <1>1 DEF RoutesInit, Served!Init

\* An Install of the code is an Install of the abstraction, an UpsertCommit a
\* Commit; every other step stutters.
LEMMA RefinesStep ==
    ASSUME Inv, Inv', [RoutesNext]_routeVars
    PROVE  [Served!Next]_<<versions, [r \in Route |-> ServedVersion(r)]>>
  <1>1. CASE versions' = versions /\ cache' = cache
    BY <1>1 DEF ServedVersion
  <1>2. ASSUME NEW p \in Process, Install(p) PROVE Served!Install
    <2>1. versions' = versions
      BY <1>2 DEF Install
    <2>2. \A r \in Route : ServedVersion(r)' \in versions'[r] \cup {None}
      BY ServesOnlyCommitted DEF Inv
    <2> QED
      BY <2>1, <2>2 DEF Served!Install
  <1>3. ASSUME NEW p \in Process, UpsertCommit(p)
        PROVE  \E r \in Route : \E v \in versions'[r] : Served!Commit(r, v)
    <2>1. PICK r, v : /\ r = proc[p].req.route
                      /\ v = [release |-> proc[p].req.row.release, live |-> Live(proc[p].req.backends)]
      OBVIOUS
    <2>2. r \in Route
      <3>1. UpsertInv(proc[p])
        BY <1>3 DEF UpsertCommit, At, Inv, ProcInv, StateInv
      <3> QED
        BY <2>1, <3>1, RoutesAssumption DEF UpsertInv
    <2>3. versions' = [versions EXCEPT ![r] = @ \cup {v}] /\ cache' = cache
      BY <1>3, <2>1 DEF UpsertCommit
    <2>4. v \in versions'[r]
      BY <2>2, <2>3 DEF Inv, TableTypes
    <2>5. Served!Commit(r, v)
      BY <2>3 DEF Served!Commit, ServedVersion
    <2> QED
      BY <2>2, <2>4, <2>5
  <1>4. \/ versions' = versions /\ cache' = cache
        \/ \E p \in Process : Install(p) \/ UpsertCommit(p)
    BY DEF RoutesNext, routeVars, RefreshStep, UpsertRead, RollbackRead, RollbackCommit, WriteFails, Tick,
           LoadEnabledRoutes, LoadSnapshots, RefreshFails, Process
  <1> QED
    BY <1>1, <1>2, <1>3, <1>4 DEF Served!Next

\* The gateway implements ServedRoutes for any routes, releases and handlers: a
\* refresh that reads rows and backends in separate statements never serves a mix.
THEOREM ServesCommitted == RoutesSpec => ServesCommittedVersions
  <1>1. Inv /\ Inv' /\ [RoutesNext]_routeVars => [Served!Next]_<<versions, [r \in Route |-> ServedVersion(r)]>>
    BY RefinesStep
  <1>2. RoutesSpec => Served!Init /\ [][Served!Next]_<<versions, [r \in Route |-> ServedVersion(r)]>>
    BY <1>1, RefinesInit, Invariant, PTL DEF RoutesSpec
  <1> QED
    BY <1>2, PTL DEF ServesCommittedVersions, Served!Spec

-----------------------------------------------------------------------------
(***************************************************************************)
(* Matching: the cache holds snapshots, and among those that match a path   *)
(* there is a first one.                                                    *)
(***************************************************************************)
CacheInv ==
    /\ \A r \in Route, v \in Release : Live(backs[r][v]) \subseteq Instance
    /\ cache \subseteq Snapshot
    /\ \A p \in Process : proc[p].pc = "install" => proc[p].snaps \subseteq Snapshot

LEMMA CacheInit == RoutesInit => CacheInv
  <1> SUFFICES ASSUME RoutesInit PROVE CacheInv
    OBVIOUS
  <1>1. \A r \in Route, v \in Release : backs[r][v] = NoBackends
    BY DEF RoutesInit
  <1>2. Live(NoBackends) = {}
    BY DEF Live, NoBackends
  <1>3. \A p \in Process : proc[p].pc = "idle"
    BY DEF RoutesInit, Idle
  <1> QED
    BY <1>1, <1>2, <1>3 DEF RoutesInit, CacheInv

\* A process reaches its last statement with snapshots in hand, or not at all.
LEMMA CacheProc ==
    ASSUME Inv, CacheInv, NEW p \in Process, NEW st, proc' = [proc EXCEPT ![p] = st],
           st.pc = "install" => st.snaps \subseteq Snapshot
    PROVE  \A q \in Process : proc'[q].pc = "install" => proc'[q].snaps \subseteq Snapshot
  BY DEF Inv, ProcInv, CacheInv

LEMMA CacheSteps == Inv /\ CacheInv /\ [RoutesNext]_routeVars => CacheInv'
  <1> SUFFICES ASSUME Inv, CacheInv, [RoutesNext]_routeVars PROVE CacheInv'
    OBVIOUS
  <1>0. Admin \subseteq Process /\ Loop \in Process
    BY DEF Process
  <1>1. ASSUME NEW p \in Process, NEW st, proc' = [proc EXCEPT ![p] = st], st.pc # "install",
               UNCHANGED <<backs, cache>>
        PROVE  CacheInv'
    BY <1>1, CacheProc DEF CacheInv
  <1>2. ASSUME NEW p \in Admin, NEW q \in Request, UpsertRead(p, q) PROVE CacheInv'
    <2> DEFINE st == [pc |-> "upsert", req |-> q, old |-> Current(q.route)]
    <2>1. proc' = [proc EXCEPT ![p] = st] /\ st.pc # "install" /\ UNCHANGED <<backs, cache>>
      BY <1>2 DEF UpsertRead
    <2> QED
      BY <1>0, <1>1, <2>1
  <1>3. ASSUME NEW p \in Admin, NEW r \in Route, RollbackRead(p, r) PROVE CacheInv'
    <2> DEFINE st == [pc |-> "rollback", route |-> r, old |-> Current(r),
                      target |-> LastSwitchTo(r, Current(r)), seen |-> Len(hist[r])]
    <2>1. proc' = [proc EXCEPT ![p] = st] /\ st.pc # "install" /\ UNCHANGED <<backs, cache>>
      BY <1>3 DEF RollbackRead
    <2> QED
      BY <1>0, <1>1, <2>1
  <1>4. ASSUME NEW p \in Process, WriteFails(p) \/ RefreshFails(p) \/ RollbackCommit(p) PROVE CacheInv'
    <2>1. Idle.pc # "install" /\ [pc |-> "load"].pc # "install"
      BY DEF Idle
    <2>2. /\ proc' = [proc EXCEPT ![p] = Idle] \/ proc' = [proc EXCEPT ![p] = [pc |-> "load"]]
          /\ UNCHANGED <<backs, cache>>
      BY <1>4 DEF WriteFails, RefreshFails, RollbackCommit
    <2> QED
      BY <1>1, <2>1, <2>2
  <1>5. CASE Tick
    <2>1. proc' = [proc EXCEPT ![Loop] = [pc |-> "load"]] /\ UNCHANGED <<backs, cache>>
      BY <1>5 DEF Tick
    <2>2. [pc |-> "load"].pc # "install"
      OBVIOUS
    <2> QED
      BY <1>0, <1>1, <2>1, <2>2
  <1>6. ASSUME NEW p \in Process, UpsertCommit(p) PROVE CacheInv'
    <2> DEFINE r == proc[p].req.route
               v == proc[p].req.row.release
               b == proc[p].req.backends
    <2>1. proc[p].req \in Request
      BY <1>6 DEF UpsertCommit, At, Inv, ProcInv, StateInv, UpsertInv
    <2>2. r \in Route /\ v \in Release /\ Live(b) \subseteq Instance
      BY <2>1, RoutesAssumption DEF Row, Live
    <2>3. backs' = [backs EXCEPT ![r][v] = b] /\ cache' = cache
          /\ proc' = [proc EXCEPT ![p] = [pc |-> "load"]]
      BY <1>6 DEF UpsertCommit
    <2>4. [pc |-> "load"].pc # "install"
      OBVIOUS
    <2> HIDE DEF r, v, b
    <2>5. \A s \in Route, w \in Release : backs'[s][w] = b \/ backs'[s][w] = backs[s][w]
      BY <2>2, <2>3 DEF Inv, TableTypes
    <2>6. \A s \in Route, w \in Release : Live(backs'[s][w]) \subseteq Instance
      BY <2>2, <2>5 DEF CacheInv
    <2>7. \A q \in Process : proc'[q].pc = "install" => proc'[q].snaps \subseteq Snapshot
      BY <2>3, <2>4, CacheProc
    <2> QED
      BY <2>3, <2>6, <2>7 DEF CacheInv, Live
  <1>7. ASSUME NEW p \in Process, LoadEnabledRoutes(p) PROVE CacheInv'
    <2> DEFINE st == [pc |-> "fill", rows |-> [r \in {q \in Route : db[q] # None /\ db[q].enabled} |-> db[r]]]
    <2>1. proc' = [proc EXCEPT ![p] = st] /\ st.pc # "install" /\ UNCHANGED <<backs, cache>>
      BY <1>7 DEF LoadEnabledRoutes
    <2> QED
      BY <1>1, <2>1
  <1>8. ASSUME NEW p \in Process, LoadSnapshots(p) PROVE CacheInv'
    <2> DEFINE rows == proc[p].rows
               all  == {ToSnapshot(r, rows[r]) : r \in DOMAIN rows}
               st   == [pc |-> "install", snaps |-> {s \in all : s.backends # {}}]
    <2>1. ReadRows(proc[p])
      BY <1>8 DEF LoadSnapshots, At, Inv, ProcInv, StateInv
    <2>2. ASSUME NEW r \in DOMAIN rows PROVE ToSnapshot(r, rows[r]) \in Snapshot
      <3>1. r \in Route /\ rows[r].site \in Site /\ rows[r].release \in Release
        BY <2>1 DEF ReadRows, Row
      <3>2. Live(backs[r][rows[r].release]) \in SUBSET Instance
        BY <3>1 DEF CacheInv
      <3> QED
        BY <3>1, <3>2 DEF ToSnapshot, Snapshot
    <2>3. proc' = [proc EXCEPT ![p] = st] /\ UNCHANGED <<backs, cache>>
      BY <1>8 DEF LoadSnapshots
    <2>4. st.snaps \subseteq Snapshot
      BY <2>2
    <2> HIDE DEF st
    <2> QED
      BY <2>3, <2>4, CacheProc DEF CacheInv
  <1>9. ASSUME NEW p \in Process, Install(p) PROVE CacheInv'
    <2>1. cache' = proc[p].snaps /\ proc' = [proc EXCEPT ![p] = Idle] /\ UNCHANGED backs /\ At(p, "install")
      BY <1>9 DEF Install
    <2>2. Idle.pc # "install"
      BY DEF Idle
    <2> QED
      BY <2>1, <2>2, CacheProc DEF CacheInv, At
  <1>10. CASE UNCHANGED routeVars
    BY <1>10 DEF routeVars, CacheInv
  <1> QED
    BY <1>0, <1>2, <1>3, <1>4, <1>5, <1>6, <1>7, <1>8, <1>9, <1>10 DEF RoutesNext, RefreshStep

\* The marks of a path are strings; the provers know no string literal to be one.
Text == STRING \cup {"/", "a", "b"}

LEMMA StringsAreText ==
    ASSUME NEW s \in Seq(STRING)
    PROVE  s \in Seq(Text)
  <1>1. Len(s) \in Nat /\ s \in [1..Len(s) -> STRING]
    OBVIOUS
  <1>2. s \in [1..Len(s) -> Text]
    BY <1>1 DEF Text
  <1> QED
    BY <1>1, <1>2

LEMMA PrefixElements ==
    ASSUME NEW s \in Seq(Text), NEW t \in Seq(Text)
    PROVE  IsPrefix(s, t) <=> Len(s) <= Len(t) /\ \A i \in 1..Len(s) : s[i] = t[i]
  <1> DEFINE n == Len(s)
             a == SubSeq(s, 1, n)
             b == SubSeq(t, 1, n)
  <1>0. n \in Nat /\ Len(t) \in Nat
    OBVIOUS
  <1>1. a \in Seq(Text) /\ Len(a) = n /\ \A i \in 1..n : a[i] = s[i]
    OBVIOUS
  <1>2. ASSUME n <= Len(t) PROVE b \in Seq(Text) /\ Len(b) = n /\ \A i \in 1..n : b[i] = t[i]
    BY <1>2
  <1>3. IsPrefix(s, t) <=> n <= Len(t) /\ a = b
    BY DEF IsPrefix
  <1> HIDE DEF a, b
  <1>4. ASSUME n <= Len(t) PROVE a = b <=> \A i \in 1..n : s[i] = t[i]
    <2>1. ASSUME \A i \in 1..n : s[i] = t[i] PROVE a = b
      BY <1>1, <1>2, <1>4, <2>1, SeqEqual
    <2>2. ASSUME a = b PROVE \A i \in 1..n : s[i] = t[i]
      BY <1>1, <1>2, <1>4, <2>2
    <2> QED
      BY <2>1, <2>2
  <1> QED
    BY <1>3, <1>4

\* matchRoute accepts exactly the prefixes that end with a segment of the path.
LEMMA MatchesIsCovers ==
    ASSUME NEW prefix \in Seq(Text), NEW path \in Seq(Text)
    PROVE  PathMatches(path, prefix) <=> Covers(prefix, path)
  <1> DEFINE n == Len(prefix)
             longer == prefix \o <<"/">>
  <1>0. n \in Nat /\ Len(path) \in Nat
    OBVIOUS
  <1>1. longer \in Seq(Text) /\ Len(longer) = n + 1 /\ longer[n + 1] = "/"
        /\ \A i \in 1..n : longer[i] = prefix[i]
    <2> DEFINE slash == <<"/">>
    <2>1. slash \in Seq(Text) /\ Len(slash) = 1 /\ slash[1] = "/"
      <3>1. "/" \in Text
        BY DEF Text
      <3>2. slash \in Seq(Text)
        BY <3>1
      <3>3. Len(slash) = 1
        OBVIOUS
      <3>4. slash[1] = "/"
        OBVIOUS
      <3> QED
        BY <3>2, <3>3, <3>4
    <2> HIDE DEF slash
    <2>2. /\ prefix \o slash \in Seq(Text) /\ Len(prefix \o slash) = n + 1
          /\ \A i \in 1..(n + 1) : (prefix \o slash)[i] = IF i <= n THEN prefix[i] ELSE slash[i - n]
      BY <2>1, ConcatProperties
    <2>3. n + 1 \in 1..(n + 1) /\ ~(n + 1 <= n) /\ (n + 1) - n = 1
          /\ \A i \in 1..n : i \in 1..(n + 1) /\ i <= n
      BY <1>0
    <2>4. (prefix \o slash)[n + 1] = "/" /\ \A i \in 1..n : (prefix \o slash)[i] = prefix[i]
      BY <2>1, <2>2, <2>3
    <2> QED
      BY <2>2, <2>4 DEF slash
  <1> HIDE DEF longer
  <1>2. IsPrefix(longer, path) <=> /\ n + 1 <= Len(path) /\ path[n + 1] = "/"
                                   /\ \A i \in 1..n : prefix[i] = path[i]
    <2>1. IsPrefix(longer, path) <=> n + 1 <= Len(path) /\ \A i \in 1..(n + 1) : longer[i] = path[i]
      BY <1>1, PrefixElements
    <2>2. (\A i \in 1..(n + 1) : longer[i] = path[i]) <=>
            path[n + 1] = "/" /\ \A i \in 1..n : prefix[i] = path[i]
      <3>1. \A i \in 1..(n + 1) : i \in 1..n \/ i = n + 1
        BY <1>0
      <3>2. n + 1 \in 1..(n + 1) /\ \A i \in 1..n : i \in 1..(n + 1)
        BY <1>0
      <3> QED
        BY <1>1, <3>1, <3>2
    <2> QED
      BY <2>1, <2>2
  <1>3. path = prefix <=> n = Len(path) /\ \A i \in 1..n : prefix[i] = path[i]
    <2>1. ASSUME n = Len(path), \A i \in 1..n : prefix[i] = path[i] PROVE path = prefix
      BY <2>1, SeqEqual
    <2> QED
      BY <2>1
  <1>4. IsPrefix(prefix, path) <=> n <= Len(path) /\ \A i \in 1..n : prefix[i] = path[i]
    BY PrefixElements
  <1>5. CASE prefix = <<"/">>
    BY <1>5 DEF PathMatches, Covers
  <1>6. CASE prefix # <<"/">>
    <2>1. PathMatches(path, prefix) <=> IsPrefix(prefix, path) /\ (Len(path) = n \/ path[n + 1] = "/")
      BY <1>6 DEF PathMatches
    <2>2. Covers(prefix, path) <=> path = prefix \/ IsPrefix(longer, path)
      BY <1>6 DEF Covers, longer
    <2>3. CASE Len(path) = n
      BY <1>0, <1>2, <1>3, <1>4, <2>1, <2>2, <2>3
    <2>4. CASE n < Len(path)
      BY <1>0, <1>2, <1>3, <1>4, <2>1, <2>2, <2>4
    <2>5. CASE Len(path) < n
      BY <1>0, <1>2, <1>3, <1>4, <2>1, <2>2, <2>5
    <2> QED
      BY <1>0, <2>3, <2>4, <2>5
  <1> QED
    BY <1>5, <1>6

LEMMA MatchedIsShort ==
    ASSUME NEW prefix \in Seq(Text), NEW path \in Seq(Text), PathMatches(path, prefix)
    PROVE  Len(prefix) \in 0..(Len(path) + 1)
  <1>1. CASE prefix = <<"/">>
    BY <1>1
  <1>2. CASE prefix # <<"/">>
    BY <1>2, PrefixElements DEF PathMatches
  <1> QED
    BY <1>1, <1>2

\* A set of routes for one host has a longest one.
LEMMA LongestPrefix ==
    ASSUME NEW n \in Nat, NEW S, S # {}, \A s \in S : Len(s.site.prefix) \in 0..n
    PROVE  \E s \in S : \A t \in S : Len(t.site.prefix) <= Len(s.site.prefix)
  <1> DEFINE T == {Len(s.site.prefix) + 1 : s \in S}
  <1>1. T \in SUBSET (1..(n + 1)) /\ T # {} /\ n + 1 \in Nat
    OBVIOUS
  <1> HIDE DEF T
  <1>2. PICK k \in T : \A j \in T : j <= k
    BY <1>1, LastPosition
  <1>3. PICK s \in S : k = Len(s.site.prefix) + 1
    BY <1>2 DEF T
  <1>4. \A t \in S : Len(t.site.prefix) + 1 <= Len(s.site.prefix) + 1
    BY <1>2, <1>3 DEF T
  <1> QED
    BY <1>4

\* Of the routes that match, one comes first.
LEMMA FirstMatch ==
    ASSUME CacheInv, NEW host, host # AnyHost, NEW path \in Seq(Text), Matching(host, path) # {}
    PROVE  \E s \in Matching(host, path) : \A t \in Matching(host, path) : ~Before(t, s)
  <1> DEFINE found == Matching(host, path)
             named == {s \in found : s.site.host # AnyHost}
  <1>1. \A s \in found : s.site.host \in {AnyHost, host} /\ Len(s.site.prefix) \in 0..(Len(path) + 1)
    <2> SUFFICES ASSUME NEW s \in found
                 PROVE  s.site.host \in {AnyHost, host} /\ Len(s.site.prefix) \in 0..(Len(path) + 1)
      OBVIOUS
    <2>1. s \in Snapshot /\ s.site.host \in {AnyHost, host} /\ PathMatches(path, s.site.prefix)
      BY DEF Matching, CacheInv
    <2>2. s.site.prefix \in Seq(STRING)
      BY <2>1, RoutesAssumption DEF Snapshot
    <2>3. s.site.prefix \in Seq(Text)
      BY <2>2, StringsAreText
    <2> QED
      BY <2>1, <2>3, MatchedIsShort
  <1>2. Len(path) + 1 \in Nat /\ found # {}
    OBVIOUS
  <1> HIDE DEF found
  <1>3. CASE named # {}
    <2>1. PICK s \in named : \A t \in named : Len(t.site.prefix) <= Len(s.site.prefix)
      BY <1>1, <1>2, <1>3, LongestPrefix
    <2>2. s \in found /\ s.site.host = host /\ Len(s.site.prefix) \in Nat
      BY <1>1, <2>1
    <2>3. ASSUME NEW t \in found PROVE ~Before(t, s)
      <3>1. Len(t.site.prefix) \in Nat
        BY <1>1
      <3>2. t.site.host = host => Len(t.site.prefix) <= Len(s.site.prefix)
        BY <2>1
      <3> QED
        BY <2>2, <3>1, <3>2 DEF Before
    <2> QED
      BY <2>2, <2>3 DEF found
  <1>4. CASE named = {}
    <2>1. PICK s \in found : \A t \in found : Len(t.site.prefix) <= Len(s.site.prefix)
      BY <1>1, <1>2, LongestPrefix
    <2>2. \A t \in found : ~Before(t, s)
      BY <1>1, <1>4, <2>1 DEF Before
    <2> QED
      BY <2>1, <2>2 DEF found
  <1> QED
    BY <1>3, <1>4

\* appRelativePath cuts the prefix and nothing else.
LEMMA StripsPrefix ==
    ASSUME NEW site, site.prefix \in Seq(Text), NEW path \in Seq(Text),
           PathMatches(path, site.prefix)
    PROVE  site.prefix \o AppRelativePath(site, path) \in {path, path \o <<"/">>, <<"/">> \o path}
  <1> DEFINE prefix == site.prefix
             n == Len(prefix)
             rest == SubSeq(path, n + 1, Len(path))
  <1>0. n \in Nat /\ Len(path) \in Nat
    OBVIOUS
  <1>1. CASE prefix = <<"/">>
    BY <1>1 DEF AppRelativePath
  <1>2. CASE prefix # <<"/">>
    <2>1. /\ n <= Len(path) /\ \A i \in 1..n : prefix[i] = path[i]
          /\ Len(path) = n \/ path[n + 1] = "/"
      BY <1>2, PrefixElements DEF PathMatches
    <2>2. /\ rest \in Seq(Text) /\ Len(rest) = Len(path) - n
          /\ \A i \in 1..(Len(path) - n) : rest[i] = path[n + i]
      <3> HIDE DEF prefix, n
      <3>1. n + 1 \in Int /\ Len(path) \in Int
            /\ (n + 1 <= Len(path) => n + 1 \in 1..(Len(path) + 1))
            /\ n + 1 \in 1..(Len(path) + 1)
        BY <1>0, <2>1
      <3>2. rest \in Seq(Text) /\ Len(rest) = IF n + 1 <= Len(path) THEN Len(path) - (n + 1) + 1 ELSE 0
        BY <3>1
      <3>3. \A i \in 1..(Len(path) - (n + 1) + 1) : rest[i] = path[(n + 1) + i - 1]
        BY <3>1
      <3>4. Len(path) - (n + 1) + 1 = Len(path) - n /\ (~(n + 1 <= Len(path)) => Len(path) - n = 0)
        BY <1>0, <2>1
      <3>5. \A i \in 1..(Len(path) - n) : (n + 1) + i - 1 = n + i
        BY <1>0
      <3> HIDE DEF rest
      <3> QED
        BY <3>2, <3>3, <3>4, <3>5
    <2>3. AppRelativePath(site, path) = IF rest = <<>> THEN <<"/">>
                                        ELSE IF rest[1] = "/" THEN rest ELSE <<"/">> \o rest
      BY <1>2 DEF AppRelativePath
    <2> HIDE DEF rest
    <2>4. CASE rest = <<>>
      <3>1. Len(path) = n
        BY <1>0, <2>2, <2>4
      <3>2. path = prefix
        BY <2>1, <3>1, SeqEqual
      <3> QED
        BY <2>3, <2>4, <3>2
    <2>5. CASE rest # <<>>
      <3>1. Len(path) - n \in Nat /\ Len(path) - n # 0
        BY <1>0, <2>1, <2>2, <2>5
      <3>2. rest[1] = "/"
        BY <1>0, <2>1, <2>2, <3>1
      <3>3. /\ prefix \o rest \in Seq(Text) /\ Len(prefix \o rest) = Len(path)
            /\ \A i \in 1..Len(path) : (prefix \o rest)[i] = IF i <= n THEN prefix[i] ELSE rest[i - n]
        <4>1. n + Len(rest) = Len(path)
          BY <1>0, <2>2
        <4>2. prefix \in Seq(Text)
          OBVIOUS
        <4> HIDE DEF prefix
        <4> QED
          BY <2>2, <4>1, <4>2, ConcatProperties
      <3>4. ASSUME NEW i \in 1..Len(path) PROVE (prefix \o rest)[i] = path[i]
        <4>1. CASE i <= n
          BY <1>0, <2>1, <3>3, <4>1
        <4>2. CASE ~(i <= n)
          <5>1. i - n \in 1..(Len(path) - n) /\ n + (i - n) = i
            BY <1>0, <2>1, <4>2
          <5> QED
            BY <2>2, <3>3, <4>2, <5>1
        <4> QED
          BY <4>1, <4>2
      <3>5. prefix \o rest = path
        BY <3>3, <3>4, SeqEqual
      <3> QED
        BY <2>3, <2>5, <3>2, <3>5
    <2> QED
      BY <2>4, <2>5
  <1> QED
    BY <1>1, <1>2

LEMMA CacheIsMatched ==
    ASSUME CacheInv, NEW host, host # AnyHost, NEW path \in Seq(Text)
    PROVE  LET s == Match(host, path)
               covering == {t \in cache : t.site.host \in {host, AnyHost} /\ Covers(t.site.prefix, path)}
           IN  IF s = None THEN covering = {}
               ELSE /\ s \in covering
                    /\ \A t \in covering :
                          /\ s.site.host = AnyHost => t.site.host = AnyHost
                          /\ s.site.host = t.site.host => Len(t.site.prefix) <= Len(s.site.prefix)
                    /\ s.site.prefix \o AppRelativePath(s.site, path) \in
                          {path, path \o <<"/">>, <<"/">> \o path}
  <1> DEFINE found == Matching(host, path)
             covering == {t \in cache : t.site.host \in {host, AnyHost} /\ Covers(t.site.prefix, path)}
             s == Match(host, path)
  <1>1. \A t \in cache : t # None /\ t.site.prefix \in Seq(Text)
    <2>1. \A t \in cache : t # None /\ t.site.prefix \in Seq(STRING)
      BY RoutesAssumption DEF CacheInv, Snapshot
    <2> QED
      BY <2>1, StringsAreText
  <1>2. found = covering
    BY <1>1, MatchesIsCovers DEF Matching
  <1>3. CASE found = {}
    <2>1. s = None
      BY <1>3 DEF Match
    <2>2. covering = {}
      BY <1>2, <1>3
    <2> HIDE DEF s, covering
    <2>3. IF s = None THEN covering = {}
          ELSE /\ s \in covering
               /\ \A t \in covering :
                     /\ s.site.host = AnyHost => t.site.host = AnyHost
                     /\ s.site.host = t.site.host => Len(t.site.prefix) <= Len(s.site.prefix)
               /\ s.site.prefix \o AppRelativePath(s.site, path) \in
                     {path, path \o <<"/">>, <<"/">> \o path}
      BY <2>1, <2>2, Zenon
    <2> QED
      BY <2>3 DEF s, covering
  <1>4. CASE found # {}
    <2>1. s = CHOOSE x \in found : \A t \in found : ~Before(t, x)
      BY <1>4 DEF Match
    <2>2. \E x \in found : \A t \in found : ~Before(t, x)
      BY <1>4, FirstMatch
    <2> HIDE DEF found, s
    <2>3. s \in found /\ \A t \in found : ~Before(t, s)
      BY <2>1, <2>2
    <2>4. s \in cache /\ PathMatches(path, s.site.prefix)
      BY <2>3 DEF found, Matching
    <2>5. \A t \in found :
             /\ s.site.host = AnyHost => t.site.host = AnyHost
             /\ s.site.host = t.site.host => Len(t.site.prefix) <= Len(s.site.prefix)
      <3> SUFFICES ASSUME NEW t \in found
                   PROVE  /\ s.site.host = AnyHost => t.site.host = AnyHost
                          /\ s.site.host = t.site.host => Len(t.site.prefix) <= Len(s.site.prefix)
        OBVIOUS
      <3>1. t \in cache
        BY DEF found, Matching
      <3>2. Len(t.site.prefix) \in Nat /\ Len(s.site.prefix) \in Nat
        <4>1. t.site.prefix \in Seq(Text) /\ s.site.prefix \in Seq(Text)
          BY <1>1, <2>4, <3>1
        <4> QED
          BY <4>1
      <3>3. ~Before(t, s)
        BY <2>3
      <3> QED
        BY <3>2, <3>3 DEF Before
    <2>6. s.site.prefix \o AppRelativePath(s.site, path) \in {path, path \o <<"/">>, <<"/">> \o path}
      BY <1>1, <2>4, StripsPrefix
    <2>7. s # None
      BY <1>1, <2>4
    <2> HIDE DEF covering
    <2>8. IF s = None THEN covering = {}
          ELSE /\ s \in covering
               /\ \A t \in covering :
                     /\ s.site.host = AnyHost => t.site.host = AnyHost
                     /\ s.site.host = t.site.host => Len(t.site.prefix) <= Len(s.site.prefix)
               /\ s.site.prefix \o AppRelativePath(s.site, path) \in
                     {path, path \o <<"/">>, <<"/">> \o path}
      <3>1. s \in covering
        BY <1>2, <2>3
      <3> QED
        BY <1>2, <2>5, <2>6, <2>7, <3>1, Zenon
    <2> QED
      BY <2>8 DEF s, covering
  <1> QED
    BY <1>3, <1>4

\* The paths of the property are paths of the lemma.
LEMMA MatchesMostSpecific == CacheInv => MostSpecificRoute
  <1>1. Path \subseteq Seq(Text)
    <2>1. "/" \in Text /\ "a" \in Text /\ "b" \in Text
      BY DEF Text
    <2>2. <<"/">> \in Seq(Text)
      BY <2>1
    <2>3. <<"/", "a">> \in Seq(Text)
      BY <2>1
    <2>4. <<"/", "a", "/", "b">> \in Seq(Text)
      BY <2>1
    <2>5. <<"/", "a", "b">> \in Seq(Text)
      BY <2>1
    <2> QED
      BY <2>2, <2>3, <2>4, <2>5 DEF Path
  <1> SUFFICES ASSUME CacheInv, NEW host \in {s.host : s \in Site} \ {AnyHost}, NEW path \in Path
               PROVE  LET s == Match(host, path)
                          covering == {t \in cache : t.site.host \in {host, AnyHost}
                                                       /\ Covers(t.site.prefix, path)}
                      IN  IF s = None THEN covering = {}
                          ELSE /\ s \in covering
                               /\ \A t \in covering :
                                     /\ s.site.host = AnyHost => t.site.host = AnyHost
                                     /\ s.site.host = t.site.host =>
                                           Len(t.site.prefix) <= Len(s.site.prefix)
                               /\ s.site.prefix \o AppRelativePath(s.site, path) \in
                                     {path, path \o <<"/">>, <<"/">> \o path}
    BY DEF MostSpecificRoute
  <1>2. path \in Seq(Text) /\ host # AnyHost
    BY <1>1
  <1> QED
    BY <1>2, CacheIsMatched

\* A request goes to the most specific route of the cache, whatever routes with
\* whatever hosts and prefixes are in it, and only a path no route covers is
\* refused: the order of LoadSnapshots has a first match for every request.
THEOREM RoutesBySpecificity == RoutesSpec => []MostSpecificRoute
  BY MatchesMostSpecific, CacheInit, CacheSteps, Invariant, PTL DEF RoutesSpec
-----------------------------------------------------------------------------
(***************************************************************************)
(* The whole gateway, which restarts: an empty cache and processes that     *)
(* have read nothing are as good as those of a first start, and the tables  *)
(* are the control plane's and stay.                                        *)
(***************************************************************************)
LEMMA RestartKeeps ==
    ASSUME Inv, CacheInv, RoutesRestart
    PROVE  Inv' /\ CacheInv'
  <1>1. /\ SameTables /\ cache' = {}
        /\ proc' = [p \in Process |-> IF p = Loop THEN [pc |-> "load"] ELSE Idle]
    BY DEF RoutesRestart, SameTables
  <1>2. TableTypes' /\ HistoryInv'
    BY <1>1, SameTablesKeep
  <1>3. \A st : (\E p \in Process : proc'[p] = st) => st.pc \in {"idle", "load"}
    BY <1>1 DEF Idle
  <1>4. ProcInv'
    BY <1>1, <1>3, Restful DEF ProcInv
  <1>5. VersionsInv'
    BY <1>1, SameTablesKeep DEF SameTables, Inv, VersionsInv
  <1>6. CacheInv'
    BY <1>1, <1>3 DEF SameTables, CacheInv
  <1> QED
    BY <1>2, <1>4, <1>5, <1>6 DEF Inv

LEMMA GatewayMoves == [Next]_vars => [RoutesNext]_routeVars \/ RoutesRestart
  BY DEF Next, GatewayRestart, vars

LEMMA GatewayInvariant == Spec => [](Inv /\ CacheInv)
  <1>1. Init => Inv /\ CacheInv
    BY Starts, CacheInit DEF Init
  <1>2. (Inv /\ CacheInv) /\ [Next]_vars => (Inv /\ CacheInv)'
    BY GatewayMoves, RestartKeeps, Steps, CacheSteps
  <1> QED
    BY <1>1, <1>2, PTL DEF Spec

\* To who watches what is served, a restart is an install of nothing at all.
LEMMA RestartServesNothing ==
    ASSUME RoutesRestart
    PROVE  Served!Install
  <1>1. versions' = versions /\ cache' = {}
    BY DEF RoutesRestart
  <1>2. \A r \in Route : ServedVersion(r)' = None
    BY <1>1 DEF ServedVersion
  <1> QED
    BY <1>1, <1>2 DEF Served!Install

\* A rollback that is interrupted by a restart did not commit.
LEMMA RestartUndoesNothing ==
    ASSUME RoutesRestart, NEW p \in Admin
    PROVE  proc'[p].pc # "load"
  BY RoutesAssumption DEF RoutesRestart, Process, Idle

\* What the routes promise they promise across restarts of the gateway, which
\* lose the cache and interrupt every handler and refresh: committed versions
\* only, the most specific route, a history that knows the current release, and
\* rollbacks that undo the last switch.
THEOREM RoutesSurviveRestarts ==
    Spec => /\ ServesCommittedVersions
            /\ []MostSpecificRoute
            /\ []HistoryKnowsCurrent
            /\ RollbackUndoesLastSwitch
  <1> DEFINE A == \A p \in {q \in Admin : At(q, "rollback")} :
                    LET r == proc[p].route
                        last == Last(hist[r])
                    IN  proc'[p].pc = "load" /\ proc[p].old = Current(r)
                          /\ last.to = Current(r) /\ last.from # None /\ proc[p].seen = Len(hist[r])
                        => /\ db'[r].release = last.from
                           /\ Last(hist'[r]) = [from |-> last.to, to |-> last.from]
             B == [Served!Next]_<<versions, [r \in Route |-> ServedVersion(r)]>>
  <1>1. Inv /\ RoutesNext => A
    BY RollbackUndoes DEF UndoesLastSwitch
  <1>2. RoutesRestart => A
    BY RestartUndoesNothing
  <1>3. Inv /\ [Next]_vars => [A]_routeVars
    <2> HIDE DEF A
    <2> QED
      BY <1>1, <1>2, GatewayMoves
  <1>4. Inv /\ Inv' /\ [Next]_vars => B
    <2> SUFFICES ASSUME Inv, Inv', [Next]_vars PROVE B
      OBVIOUS
    <2>1. CASE [RoutesNext]_routeVars
      BY <2>1, RefinesStep
    <2>2. CASE RoutesRestart
      BY <2>2, RestartServesNothing DEF Served!Next
    <2> QED
      BY <2>1, <2>2, GatewayMoves
  <1>5. Init => Served!Init
    BY RefinesInit DEF Init
  <1>6. Spec => [][A]_routeVars
    BY <1>3, GatewayInvariant, PTL DEF Spec
  <1>7. Spec => Served!Init /\ [][Served!Next]_<<versions, [r \in Route |-> ServedVersion(r)]>>
    BY <1>4, <1>5, GatewayInvariant, PTL DEF Spec
  <1>8. Spec => []MostSpecificRoute /\ []HistoryKnowsCurrent
    BY GatewayInvariant, KnowsCurrent, MatchesMostSpecific, PTL
  <1>9. Spec => RollbackUndoesLastSwitch
    BY <1>6, PTL DEF RollbackUndoesLastSwitch
  <1>10. Spec => ServesCommittedVersions
    BY <1>7, PTL DEF ServesCommittedVersions, Served!Spec
  <1> QED
    BY <1>8, <1>9, <1>10
-----------------------------------------------------------------------------
(***************************************************************************)
(* Certificates. The set of managed domains is written in one step and      *)
(* handed to the issuer in a later one; in between, a domain that is not    *)
(* handed yet is promised by the reconcile that wrote it, unless another    *)
(* issuer has come, and then the set says by whose leave it was written.    *)
(***************************************************************************)
TLSShapes ==
    /\ tls = [cfg |-> tls.cfg, magic |-> tls.magic, managed |-> tls.managed]
    /\ DOMAIN task = Task
    /\ \A t \in Task : task[t].pc = "write" =>
          task[t] = [pc |-> "write", magic |-> task[t].magic, desired |-> task[t].desired]

TLSInv == TLSShapes /\ ManagedAreHanded

LEMMA PromisedStays ==
    ASSUME NEW t \in Task, NEW st, DOMAIN task = Task, task' = [task EXCEPT ![t] = st], tls' = tls,
           task[t].pc # "manage"
    PROVE  Promised \subseteq Promised'
  BY DEF Promised

LEMMA TLSStarts == TLSInit => TLSInv
  BY DEF TLSInit, TLSInv, TLSShapes, ManagedAreHanded, Waiting

\* A task that only begins or gives up leaves the promises as they are.
LEMMA TaskTurns ==
    ASSUME TLSInv, NEW t \in Task, NEW st, task' = [task EXCEPT ![t] = st],
           st.pc = "write" => st = [pc |-> "write", magic |-> st.magic, desired |-> st.desired],
           task[t].pc # "manage", UNCHANGED <<tls, handed, author>>
    PROVE  TLSInv'
  <1>1. TLSShapes'
    BY DEF TLSInv, TLSShapes
  <1>2. Promised \subseteq Promised'
    BY PromisedStays DEF TLSInv, TLSShapes
  <1>3. ManagedAreHanded'
    BY <1>2 DEF TLSInv, ManagedAreHanded
  <1> QED
    BY <1>1, <1>3 DEF TLSInv

\* A new issuer starts with nothing managed.
LEMMA NothingManaged ==
    ASSUME tls'.managed = {}
    PROVE  ManagedAreHanded'
  BY DEF ManagedAreHanded

LEMMA ReconfigureStep ==
    ASSUME TLSInv, Reconfigure
    PROVE  TLSInv'
  <1>1. /\ "push" \in Task /\ task["push"].pc = "check" /\ DOMAIN task = Task
        /\ \A t \in Task : task[t].pc = "write" =>
              task[t] = [pc |-> "write", magic |-> task[t].magic, desired |-> task[t].desired]
    BY DEF Reconfigure, TLSInv, TLSShapes, Task
  <1>2. CASE UnchangedConfig(task["push"].cfg)
    <2>1. task' = [task EXCEPT !["push"] = Waiting] /\ UNCHANGED <<tls, handed, author>>
      BY <1>2 DEF Reconfigure
    <2> QED
      BY <1>1, <2>1, TaskTurns DEF Waiting
  <1>3. CASE ~UnchangedConfig(task["push"].cfg)
    <2>1. /\ tls' = [cfg |-> task["push"].cfg, magic |-> tls.magic + 1, managed |-> {}]
          /\ task' = [task EXCEPT !["push"] = [pc |-> "reconcile"]]
      BY <1>3 DEF Reconfigure
    <2>2. tls' = [cfg |-> tls'.cfg, magic |-> tls'.magic, managed |-> tls'.managed]
          /\ tls'.managed = {}
      BY <2>1
    <2>3. TLSShapes'
      BY <1>1, <2>1, <2>2 DEF TLSShapes
    <2> QED
      BY <2>2, <2>3, NothingManaged DEF TLSInv
  <1> QED
    BY <1>2, <1>3

LEMMA ReconcileReadStep ==
    ASSUME TLSInv, NEW t \in Task, NEW hosts, ReconcileRead(t, hosts)
    PROVE  TLSInv'
  <1> DEFINE st == IF tls.cfg = Unset \/ tls.managed = Desired(tls.cfg, hosts) THEN Waiting
                   ELSE [pc |-> "write", magic |-> tls.magic, desired |-> Desired(tls.cfg, hosts)]
  <1>1. task' = [task EXCEPT ![t] = st] /\ UNCHANGED <<tls, handed, author>>
    BY Zenon DEF ReconcileRead
  <1>2. task[t].pc # "manage"
    BY DEF ReconcileRead
  <1>3. st.pc = "write" => st = [pc |-> "write", magic |-> st.magic, desired |-> st.desired]
    <2>1. st = Waiting \/ st = [pc |-> "write", magic |-> tls.magic, desired |-> Desired(tls.cfg, hosts)]
      OBVIOUS
    <2> HIDE DEF st
    <2> QED
      BY <2>1 DEF Waiting
  <1> HIDE DEF st
  <1> QED
    BY <1>1, <1>2, <1>3, TaskTurns

LEMMA ReconcileWriteStep ==
    ASSUME TLSInv, NEW t \in Task, ReconcileWrite(t)
    PROVE  TLSInv'
  <1> DEFINE st == [pc |-> "manage", magic |-> task[t].magic, desired |-> task[t].desired]
  <1>1. /\ task[t] = [pc |-> "write", magic |-> task[t].magic, desired |-> task[t].desired]
        /\ tls = [cfg |-> tls.cfg, magic |-> tls.magic, managed |-> tls.managed]
        /\ DOMAIN task = Task
    BY DEF ReconcileWrite, TLSInv, TLSShapes
  <1>2. task' = [task EXCEPT ![t] = st]
    <2>1. task' = [task EXCEPT ![t].pc = "manage"]
      BY DEF ReconcileWrite
    <2>2. [task[t] EXCEPT !.pc = "manage"] = st
      BY <1>1
    <2> QED
      BY <1>1, <2>1, <2>2
  <1>3. tls' = [cfg |-> tls.cfg, magic |-> tls.magic, managed |-> task[t].desired]
    BY <1>1 DEF ReconcileWrite
  <1>4. TLSShapes'
    <2>1. tls' = [cfg |-> tls'.cfg, magic |-> tls'.magic, managed |-> tls'.managed]
      BY <1>3
    <2> QED
      BY <1>1, <1>2, <2>1 DEF TLSInv, TLSShapes
  <1>5. author' = task[t].magic /\ tls'.magic = tls.magic /\ tls'.managed = task[t].desired
    BY <1>3 DEF ReconcileWrite
  <1>6. task'[t].pc = "manage" /\ task'[t].magic = task[t].magic /\ task'[t].desired = task[t].desired
    BY <1>1, <1>2
  <1>7. ManagedAreHanded'
    BY <1>5, <1>6 DEF ManagedAreHanded, Promised
  <1> QED
    BY <1>4, <1>7 DEF TLSInv

LEMMA ManageStep ==
    ASSUME TLSInv, NEW t \in Task, ManageAsync(t)
    PROVE  TLSInv'
  <1>1. /\ task[t].pc = "manage" /\ task' = [task EXCEPT ![t] = Waiting]
        /\ tls' = tls /\ author' = author /\ DOMAIN task = Task
    BY DEF ManageAsync, TLSInv, TLSShapes
  <1>2. TLSShapes'
    BY <1>1 DEF TLSInv, TLSShapes, Waiting
  <1>3. handed \subseteq handed' /\ (task[t].magic = tls.magic => task[t].desired \subseteq handed')
    BY DEF ManageAsync
  <1>4. Promised \subseteq Promised' \cup handed'
    BY <1>1, <1>3 DEF Promised
  <1>5. ManagedAreHanded'
    BY <1>1, <1>3, <1>4 DEF TLSInv, ManagedAreHanded
  <1> QED
    BY <1>2, <1>5 DEF TLSInv

LEMMA TLSRestartStep ==
    ASSUME TLSInv, TLSRestart
    PROVE  TLSInv'
  <1>1. /\ tls' = [cfg |-> Unset, magic |-> tls.magic, managed |-> {}]
        /\ task' = [t \in Task |-> Waiting]
    BY DEF TLSRestart
  <1>2. tls' = [cfg |-> tls'.cfg, magic |-> tls'.magic, managed |-> tls'.managed] /\ tls'.managed = {}
    BY <1>1
  <1>3. TLSShapes'
    BY <1>1, <1>2 DEF TLSShapes, Waiting
  <1> QED
    BY <1>2, <1>3, NothingManaged DEF TLSInv

LEMMA TLSSteps == TLSInv /\ [Next]_vars => TLSInv'
  <1> SUFFICES ASSUME TLSInv, [Next]_vars PROVE TLSInv'
    OBVIOUS
  <1>1. CASE UNCHANGED <<tls, handed, author, task>>
    BY <1>1 DEF TLSInv, TLSShapes, ManagedAreHanded, Promised
  <1>2. CASE Push
    BY <1>2, TaskTurns DEF Push, Reading, Task
  <1>3. CASE PushLost
    BY <1>3, TaskTurns DEF PushLost, Waiting, Task
  <1>4. ASSUME NEW t \in Task, TaskStep(t, CachedHosts) PROVE TLSInv'
    BY <1>4, ReconcileReadStep, ReconcileWriteStep, ManageStep DEF TaskStep
  <1>5. CASE GatewayRestart
    BY <1>5, TLSRestartStep DEF GatewayRestart
  <1>6. \/ UNCHANGED <<tls, handed, author, task>>
        \/ Push \/ PushLost \/ Reconfigure \/ GatewayRestart
        \/ \E t \in Task : TaskStep(t, CachedHosts)
    BY DEF Next, TLSNext, EditSettings, vars, tlsVars
  <1> QED
    BY <1>1, <1>2, <1>3, <1>4, <1>5, <1>6, ReconfigureStep

\* Whatever the interleaving of pushes, of the loop, of the reconcile after a push
\* and of restarts: a managed domain was handed to the current issuer or is about
\* to be, unless the reconcile that recorded it had read another issuer.
THEOREM ManagedReachTheIssuer == Spec => []ManagedAreHanded
  <1>1. Init => TLSInv
    BY TLSStarts DEF Init
  <1>2. Spec => []TLSInv
    BY <1>1, TLSSteps, PTL DEF Spec
  <1>3. TLSInv => ManagedAreHanded
    BY DEF TLSInv
  <1> QED
    BY <1>2, <1>3, PTL
=============================================================================
