------------------------------ MODULE EdgeTLS ------------------------------
(***************************************************************************)
(* The certificates of a gateway that is the TLS edge: credentials from the *)
(* platform settings, pushed by the control plane at every tick because the *)
(* gateway keeps them in memory only, the issuer built from them, and the   *)
(* set of domains it manages, recomputed from the static domains and the    *)
(* hosts of the cached routes by a loop and after every change of           *)
(* credentials. The issuer itself (CertMagic) is external.                  *)
(***************************************************************************)
EXTENDS Integers, FiniteSets

CONSTANTS
    Config,        \* complete credential bundles
    Static,        \* the static domains of each
    Certifiable,   \* domains a public CA can certify
    Unset,         \* no credentials
    MaxEdits       \* bound on changes of the settings

ASSUME TLSAssumption ==
    /\ Unset \notin Config
    /\ DOMAIN Static = Config
    /\ MaxEdits \in Nat

VARIABLES
    settings,   \* gateway.tls.* in the control plane, or Unset while incomplete
    tls,        \* Manager: cfg (Unset until ready), magic (its issuer), managed
    handed,     \* domains the current issuer was told to manage
    author,     \* the issuer that the reconcile which wrote managed had read
    task,       \* the push in progress and the reconcile loop
    edits

tlsVars == <<settings, tls, handed, author, task, edits>>

Task == {"push", "loop"}
Waiting == [pc |-> "idle"]

TLSInit ==
    /\ settings = Unset
    /\ tls = [cfg |-> Unset, magic |-> 0, managed |-> {}]
    /\ handed = {}
    /\ author = 0
    /\ task = [t \in Task |-> Waiting]
    /\ edits = 0

\* An operator completes or rotates the credentials.
EditSettings(cfg) ==
    /\ edits < MaxEdits /\ edits' = edits + 1
    /\ cfg # settings
    /\ settings' = cfg
    /\ UNCHANGED <<tls, handed, author, task>>

Reading(cfg) == [pc |-> "check", cfg |-> cfg]

\* Sync: incomplete settings are not pushed. The request may be lost.
Push ==
    /\ task["push"].pc = "idle"
    /\ settings # Unset
    /\ task' = [task EXCEPT !["push"] = Reading(settings)]
    /\ UNCHANGED <<settings, tls, handed, author, edits>>

PushLost ==
    /\ task["push"].pc = "check"
    /\ task' = [task EXCEPT !["push"] = Waiting]
    /\ UNCHANGED <<settings, tls, handed, author, edits>>

\* Mutation: any credentials will do once the manager is ready.
UnchangedConfigReady(cfg) == tls.cfg # Unset

UnchangedConfig(cfg) == tls.cfg = cfg

\* Mutation: the managed set survives the change of issuer.
ReconfigureKeepsManaged ==
    /\ task["push"].pc = "check"
    /\ IF UnchangedConfig(task["push"].cfg)
         THEN /\ task' = [task EXCEPT !["push"] = Waiting]
              /\ UNCHANGED <<tls, handed, author>>
         ELSE /\ tls' = [tls EXCEPT !.cfg = task["push"].cfg, !.magic = @ + 1]
              /\ handed' = {} /\ author' = tls.magic + 1
              /\ task' = [task EXCEPT !["push"] = [pc |-> "reconcile"]]
    /\ UNCHANGED <<settings, edits>>

\* Reconfigure: an unchanged bundle is a no-op; otherwise a new issuer is
\* swapped in and the managed set is cleared, then the set is reconciled.
Reconfigure ==
    /\ task["push"].pc = "check"
    /\ IF UnchangedConfig(task["push"].cfg)
         THEN /\ task' = [task EXCEPT !["push"] = Waiting]
              /\ UNCHANGED <<tls, handed, author>>
         ELSE /\ tls' = [cfg |-> task["push"].cfg, magic |-> tls.magic + 1, managed |-> {}]
              /\ handed' = {} /\ author' = tls.magic + 1
              /\ task' = [task EXCEPT !["push"] = [pc |-> "reconcile"]]
    /\ UNCHANGED <<settings, edits>>

\* hosts: what the DomainSource returns, the hosts of the cached routes.
Desired(cfg, hosts) == {d \in Static[cfg] \cup hosts : d \in Certifiable}

\* The read half of reconcile, under the read lock and the source's own: at
\* every tick of the loop, and after a change of credentials.
ReconcileRead(t, hosts) ==
    /\ task[t].pc = IF t = "loop" THEN "idle" ELSE "reconcile"
    /\ task' = [task EXCEPT ![t] =
                  IF tls.cfg = Unset \/ tls.managed = Desired(tls.cfg, hosts) THEN Waiting
                  ELSE [pc |-> "write", magic |-> tls.magic, desired |-> Desired(tls.cfg, hosts)]]
    /\ UNCHANGED <<settings, tls, handed, author, edits>>

\* The write half: whatever the manager has become since.
ReconcileWrite(t) ==
    /\ task[t].pc = "write"
    /\ tls' = [tls EXCEPT !.managed = task[t].desired]
    /\ author' = task[t].magic
    /\ task' = [task EXCEPT ![t].pc = "manage"]
    /\ UNCHANGED <<settings, handed, edits>>

\* ManageAsync of the issuer that was read; a superseded one is stopped.
ManageAsync(t) ==
    /\ task[t].pc = "manage"
    /\ handed' = IF task[t].magic = tls.magic THEN handed \cup task[t].desired ELSE handed
    /\ task' = [task EXCEPT ![t] = Waiting]
    /\ UNCHANGED <<settings, tls, author, edits>>

\* The gateway restarts without credentials; certificates on disk are served.
TLSRestart ==
    /\ tls' = [cfg |-> Unset, magic |-> tls.magic, managed |-> {}]
    /\ handed' = {} /\ author' = tls.magic
    /\ task' = [t \in Task |-> Waiting]
    /\ UNCHANGED <<settings, edits>>

TaskStep(t, hosts) == ReconcileRead(t, hosts) \/ ReconcileWrite(t) \/ ManageAsync(t)

TLSNext(hosts) ==
    \/ \E cfg \in Config : EditSettings(cfg)
    \/ Push \/ PushLost \/ Reconfigure
    \/ \E t \in Task : TaskStep(t, hosts)

\* What a reconcile is about to hand to the current issuer.
Promised == UNION {task[t].desired : t \in {u \in Task : task[u].pc = "manage" /\ task[u].magic = tls.magic}}

\* Every domain the gateway may obtain a certificate for (isManaged) was handed
\* to the current issuer or is about to be, whatever was rotated before, unless
\* the reconcile that recorded it had read an issuer replaced in between.
ManagedAreHanded == author = tls.magic => tls.managed \subseteq handed \cup Promised
=============================================================================
