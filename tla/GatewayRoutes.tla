--------------------------- MODULE GatewayRoutes ---------------------------
(***************************************************************************)
(* The gateway's routes: the rows, backends and history in MySQL, the cache *)
(* requests are matched against, and the two ways it is refreshed, by a     *)
(* loop and by the admin handlers after a write. Writes are transactions    *)
(* that read without locking, so two of them may start from the same row;   *)
(* a refresh reads the rows, then their backends, then swaps the cache.     *)
(*                                                                          *)
(* A path is a sequence of characters. Weights, headers and timeouts are    *)
(* left out: a backend is an instance that is live (enabled and healthy) or *)
(* not, and the round robin is any live backend.                            *)
(***************************************************************************)
EXTENDS Integers, Sequences, FiniteSets, SequencesExt

CONSTANTS
    Admin,        \* requests to the admin API at one time
    Loop,         \* the refresh loop
    Route,        \* route keys
    Release,
    Instance,
    Site,         \* hosts and path prefixes a route may be given
    Request,      \* upserts: the route, its new row and the backends of its release,
                  \* instances with whether they are live
    None,
    AnyHost,      \* the host "*"
    MaxWrites,    \* bound on admin requests
    MaxRestarts   \* bound on gateway restarts

\* A row of gateway_route.
Row == [site: Site, release: Release, enabled: BOOLEAN]

\* RouteSnapshot: a route with the live backends of its release.
Snapshot == [route: Route, site: Site, release: Release, backends: SUBSET Instance]

ASSUME RoutesAssumption ==
    /\ Loop \notin Admin
    /\ None \notin Release /\ None \notin Row /\ None \notin Snapshot
    /\ \A s \in Site : s.prefix \in Seq(STRING)
    /\ \A q \in Request :
          /\ q.route \in Route /\ q.row \in Row
          /\ DOMAIN q.backends # {} /\ DOMAIN q.backends \subseteq Instance
    /\ MaxWrites \in Nat /\ MaxRestarts \in Nat

Process == Admin \cup {Loop}

VARIABLES
    db,        \* gateway_route: the row of each key, or None
    backs,     \* gateway_backend: the backends of each route and release
    hist,      \* gateway_route_history, by route
    cache,     \* GatewayApplication.snapshots
    proc,      \* handlers and the loop
    versions,  \* every version of a route's live backends that was committed
    writes, restarts

routeVars == <<db, backs, hist, cache, proc, versions, writes, restarts>>

NoBackends == [i \in {} |-> TRUE]
Idle == [pc |-> "idle"]

RoutesInit ==
    /\ db = [r \in Route |-> None]
    /\ backs = [r \in Route |-> [v \in Release |-> NoBackends]]
    /\ hist = [r \in Route |-> <<>>]
    /\ cache = {}
    /\ proc = [p \in Process |-> Idle]
    /\ versions = [r \in Route |-> {}]
    /\ writes = 0 /\ restarts = 0
-----------------------------------------------------------------------------
(***************************************************************************)
(* Writes. Each is a transaction that reads its row, and later updates it   *)
(* under the row's lock: the second of two that overlap updates on top of   *)
(* the first, with what it read before it.                                  *)
(***************************************************************************)
At(p, pc) == proc[p].pc = pc
Live(b) == {i \in DOMAIN b : b[i]}
Current(r) == IF db[r] = None THEN None ELSE db[r].release

\* normalizeUpsertRequest: at least one backend.
UpsertRead(p, q) ==
    /\ At(p, "idle")
    /\ writes < MaxWrites /\ writes' = writes + 1
    /\ proc' = [proc EXCEPT ![p] = [pc |-> "upsert", req |-> q, old |-> Current(q.route)]]
    /\ UNCHANGED <<db, backs, hist, cache, versions, restarts>>

\* The unique index on host and path prefix.
SiteTaken(r, site) == \E q \in Route \ {r} : db[q] # None /\ db[q].site = site

\* Mutation: only switches between two releases are recorded.
InsertHistorySwitch(r, from, to) ==
    hist' = IF from = None THEN hist ELSE [hist EXCEPT ![r] = Append(@, [from |-> from, to |-> to])]

InsertHistory(r, from, to) ==
    hist' = [hist EXCEPT ![r] = Append(@, [from |-> from, to |-> to])]

\* The release's own backends are replaced, those of other releases stay for a
\* rollback. A switch is recorded from the release that was read.
UpsertCommit(p) ==
    LET r   == proc[p].req.route
        row == proc[p].req.row
        backends == proc[p].req.backends
        old == proc[p].old
    IN  /\ At(p, "upsert")
        /\ ~SiteTaken(r, row.site)
        /\ old = None => db[r] = None
        /\ db' = [db EXCEPT ![r] = row]
        /\ backs' = [backs EXCEPT ![r][row.release] = backends]
        /\ versions' = [versions EXCEPT ![r] =
                           @ \cup {[release |-> row.release, live |-> Live(backends)]}]
        /\ IF old = row.release THEN UNCHANGED hist ELSE InsertHistory(r, old, row.release)
        /\ proc' = [proc EXCEPT ![p] = [pc |-> "load"]]
        /\ UNCHANGED <<cache, writes, restarts>>

\* The newest switch to the current release from another one.
LastSwitchTo(r, release) ==
    LET found == {k \in 1..Len(hist[r]) :
                    hist[r][k].to = release /\ hist[r][k].from \notin {None, release}}
    IN  IF found = {} THEN None
        ELSE hist[r][CHOOSE k \in found : \A j \in found : j <= k].from

\* A release without a live backend is refused. (seen: for the property.)
RollbackRead(p, r) ==
    LET target == LastSwitchTo(r, Current(r))
    IN  /\ At(p, "idle") /\ db[r] # None
        /\ target # None /\ Live(backs[r][target]) # {}
        /\ writes < MaxWrites /\ writes' = writes + 1
        /\ proc' = [proc EXCEPT ![p] = [pc |-> "rollback", route |-> r, old |-> Current(r),
                                        target |-> target, seen |-> Len(hist[r])]]
        /\ UNCHANGED <<db, backs, hist, cache, versions, restarts>>

\* Mutation: a rollback leaves no history.
RollbackCommitUnrecorded(p) ==
    /\ At(p, "rollback")
    /\ db' = [db EXCEPT ![proc[p].route].release = proc[p].target]
    /\ proc' = [proc EXCEPT ![p] = [pc |-> "load"]]
    /\ UNCHANGED <<backs, hist, cache, versions, writes, restarts>>

RollbackCommit(p) ==
    LET r == proc[p].route
    IN  /\ At(p, "rollback")
        /\ db' = [db EXCEPT ![r].release = proc[p].target]
        /\ InsertHistory(r, proc[p].old, proc[p].target)
        /\ proc' = [proc EXCEPT ![p] = [pc |-> "load"]]
        /\ UNCHANGED <<backs, cache, versions, writes, restarts>>

\* The transaction fails, a violated unique index included.
WriteFails(p) ==
    /\ proc[p].pc \in {"upsert", "rollback"}
    /\ proc' = [proc EXCEPT ![p] = Idle]
    /\ UNCHANGED <<db, backs, hist, cache, versions, writes, restarts>>
-----------------------------------------------------------------------------
(***************************************************************************)
(* Refresh.                                                                 *)
(***************************************************************************)
Tick ==
    /\ At(Loop, "idle")
    /\ proc' = [proc EXCEPT ![Loop] = [pc |-> "load"]]
    /\ UNCHANGED <<db, backs, hist, cache, versions, writes, restarts>>

LoadEnabledRoutes(p) ==
    /\ At(p, "load")
    /\ proc' = [proc EXCEPT ![p] =
                  [pc |-> "fill", rows |-> [r \in {q \in Route : db[q] # None /\ db[q].enabled} |-> db[r]]]]
    /\ UNCHANGED <<db, backs, hist, cache, versions, writes, restarts>>

\* Mutation: the backends of whatever release is current by now.
ToSnapshotCurrent(r, row) ==
    [route |-> r, site |-> row.site, release |-> row.release,
     backends |-> Live(backs[r][Current(r)])]

ToSnapshot(r, row) ==
    [route |-> r, site |-> row.site, release |-> row.release,
     backends |-> Live(backs[r][row.release])]

\* Routes without a live backend are left out.
LoadSnapshots(p) ==
    LET rows == proc[p].rows
        all  == {ToSnapshot(r, rows[r]) : r \in DOMAIN rows}
    IN  /\ At(p, "fill")
        /\ proc' = [proc EXCEPT ![p] = [pc |-> "install", snaps |-> {s \in all : s.backends # {}}]]
        /\ UNCHANGED <<db, backs, hist, cache, versions, writes, restarts>>

Install(p) ==
    /\ At(p, "install")
    /\ cache' = proc[p].snaps
    /\ proc' = [proc EXCEPT ![p] = Idle]
    /\ UNCHANGED <<db, backs, hist, versions, writes, restarts>>

\* Mutation: a failed refresh ends the loop.
RefreshFailsLoopEnds(p) ==
    /\ proc[p].pc \in {"load", "fill"}
    /\ proc' = [proc EXCEPT ![p] = [pc |-> IF p = Loop THEN "ended" ELSE "idle"]]
    /\ UNCHANGED <<db, backs, hist, cache, versions, writes, restarts>>

\* A handler whose refresh fails reports an error for a committed write; the
\* loop goes on to its next tick.
RefreshFails(p) ==
    /\ proc[p].pc \in {"load", "fill"}
    /\ proc' = [proc EXCEPT ![p] = Idle]
    /\ UNCHANGED <<db, backs, hist, cache, versions, writes, restarts>>

\* A restart refreshes before it serves.
RoutesRestart ==
    /\ restarts < MaxRestarts /\ restarts' = restarts + 1
    /\ cache' = {}
    /\ proc' = [p \in Process |-> IF p = Loop THEN [pc |-> "load"] ELSE Idle]
    /\ UNCHANGED <<db, backs, hist, versions, writes>>

RefreshStep(p) == LoadEnabledRoutes(p) \/ LoadSnapshots(p) \/ Install(p)

RoutesNext ==
    \/ \E p \in Admin, q \in Request : UpsertRead(p, q)
    \/ \E p \in Admin, r \in Route : RollbackRead(p, r)
    \/ \E p \in Admin : UpsertCommit(p) \/ RollbackCommit(p) \/ WriteFails(p)
    \/ Tick
    \/ \E p \in Process : RefreshStep(p) \/ RefreshFails(p)

\* The loop ticks, and a refresh that is retried for ever is not refused for
\* ever by the database.
RoutesFairness ==
    /\ WF_routeVars(Tick)
    /\ SF_routeVars(LoadEnabledRoutes(Loop)) /\ SF_routeVars(LoadSnapshots(Loop))
    /\ \A p \in Process : WF_routeVars(Install(p))

RoutesSpec == RoutesInit /\ [][RoutesNext]_routeVars
-----------------------------------------------------------------------------
(***************************************************************************)
(* Matching a request against the cache.                                    *)
(***************************************************************************)
\* Mutation: a prefix matches in the middle of a segment.
PathMatchesAnywhere(path, prefix) == IsPrefix(prefix, path)

PathMatches(path, prefix) ==
    \/ prefix = <<"/">>
    \/ /\ IsPrefix(prefix, path)
       /\ Len(path) = Len(prefix) \/ path[Len(prefix) + 1] = "/"

\* The order of LoadSnapshots: a named host before "*", then the longer prefix.
Before(s, t) ==
    \/ s.site.host # AnyHost /\ t.site.host = AnyHost
    \/ s.site.host = t.site.host /\ Len(s.site.prefix) > Len(t.site.prefix)

Matching(host, path) ==
    {s \in cache : s.site.host \in {AnyHost, host} /\ PathMatches(path, s.site.prefix)}

\* The first match, or None.
Match(host, path) ==
    LET found == Matching(host, path)
    IN  IF found = {} THEN None ELSE CHOOSE s \in found : \A t \in found : ~Before(t, s)

\* appRelativePath of a route that strips its prefix.
AppRelativePath(site, path) ==
    IF site.prefix = <<"/">> THEN path
    ELSE LET rest == SubSeq(path, Len(site.prefix) + 1, Len(path))
         IN  IF rest = <<>> THEN <<"/">> ELSE IF rest[1] = "/" THEN rest ELSE <<"/">> \o rest

\* Distinct hosts of the cached routes, without "*".
CachedHosts == {s.site.host : s \in cache} \ {AnyHost}
-----------------------------------------------------------------------------
(***************************************************************************)
(* Properties.                                                              *)
(***************************************************************************)
\* The history a rollback searches knows the current release, also when
\* transactions overlapped: some entry says how the route came to it, every
\* switch is between two releases, and the backends of the current release and
\* of every release a rollback may return to are there.
HistoryKnowsCurrent ==
    \A r \in Route :
        /\ db[r] # None =>
              /\ \E k \in 1..Len(hist[r]) : hist[r][k].to = Current(r)
              /\ backs[r][Current(r)] # NoBackends
        /\ \A k \in 1..Len(hist[r]) :
              /\ hist[r][k].from # hist[r][k].to
              /\ hist[r][k].from # None => backs[r][hist[r][k].from] # NoBackends

\* A rollback that meets no other write undoes the last switch, and the next
\* rollback undoes it in turn: two in a row return to the release rolled back
\* from. (An upsert that overlaps a switch away from its own release leaves no
\* entry; a rollback after it follows an older one.)
RollbackUndoesLastSwitch ==
    [][\A p \in {q \in Admin : At(q, "rollback")} :
          LET r == proc[p].route
              last == Last(hist[r])
          IN  proc'[p].pc = "load" /\ proc[p].old = Current(r)
                /\ last.to = Current(r) /\ last.from # None /\ proc[p].seen = Len(hist[r])
              => /\ db'[r].release = last.from
                 /\ Last(hist'[r]) = [from |-> last.to, to |-> last.from]]_routeVars

Path == {<<"/">>, <<"/", "a">>, <<"/", "a", "/", "b">>, <<"/", "a", "b">>}
Covers(prefix, path) ==
    prefix = <<"/">> \/ path = prefix \/ IsPrefix(prefix \o <<"/">>, path)

\* A request goes to the most specific route: to a named host before "*" and to
\* the longest prefix that ends with a segment of the path; only a path no
\* route covers is refused. A stripped prefix leaves the rest of the path.
MostSpecificRoute ==
    \A host \in {s.host : s \in Site} \ {AnyHost}, path \in Path :
        LET s == Match(host, path)
            covering == {t \in cache : t.site.host \in {host, AnyHost} /\ Covers(t.site.prefix, path)}
        IN  IF s = None THEN covering = {}
            ELSE /\ s \in covering
                 /\ \A t \in covering :
                       /\ s.site.host = AnyHost => t.site.host = AnyHost
                       /\ s.site.host = t.site.host => Len(t.site.prefix) <= Len(s.site.prefix)
                 /\ s.site.prefix \o AppRelativePath(s.site, path) \in
                       {path, path \o <<"/">>, <<"/">> \o path}

\* What the cache would hold after a refresh without a concurrent write.
Fresh ==
    {s \in {ToSnapshot(r, db[r]) : r \in {q \in Route : db[q] # None /\ db[q].enabled}} : s.backends # {}}

\* Whatever order loads and installs overlapped in, and whichever of them
\* failed, the cache catches up with the tables.
CacheCatchesUp == <>[](cache = Fresh)

ServedVersion(r) ==
    IF \E s \in cache : s.route = r
      THEN LET s == CHOOSE t \in cache : t.route = r IN [release |-> s.release, live |-> s.backends]
      ELSE None

Served == INSTANCE ServedRoutes
            WITH committed <- versions, served <- [r \in Route |-> ServedVersion(r)]

\* The gateway implements ServedRoutes: although a refresh reads rows and
\* backends in separate statements, no route is ever served from backends that
\* were not committed together for the release it is served as.
ServesCommittedVersions == Served!Spec
=============================================================================
