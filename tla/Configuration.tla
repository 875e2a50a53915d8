---------------------------- MODULE Configuration ----------------------------
(***************************************************************************)
(* The runtime configuration of the standalone service: administrators     *)
(* read the current revision, change it, and send it back with the         *)
(* revision they started from.  What they ask for is validated against     *)
(* what the host offers before the transaction that appends a revision     *)
(* and moves the pointer to it.                                            *)
(***************************************************************************)
EXTENDS Naturals

CONSTANTS
    Admins,         \* administrators that work at the same time
    Overrides,      \* complete sets of override values
    Facts,          \* what the host offers: roots, log file, journal unit, model, timeouts
    Allowed,        \* Allowed[f]: the overrides valid on a host that offers f
    MaxRevision,    \* bound: revisions of one behaviour
    MaxMoves        \* bound: changes of the host

VARIABLES
    conf,   \* the row of runtime_config_state
    revs,   \* the rows of runtime_config_revision and their audit events
    admin,  \* what each administrator is doing
    facts,  \* what the host offers now
    moves   \* changes of the host so far

fvars == <<conf, revs, admin, facts, moves>>

\* The overrides of revision 0, which equal no serialized set of overrides.
Empty == "empty"

NoAdmin == [pc |-> "idle", seen |-> 0, want |-> Empty, facts |-> Empty]

\* The fingerprint of the effective configuration: the overrides on what the host offers.
Fingerprint(o, f) == <<o, f>>

NoFingerprint == <<>>

\* What _host_facts can make of the environment and of the files it names.
HostFacts == Facts

ConfigurationInit ==
    /\ conf = [revision |-> 0, fingerprint |-> NoFingerprint]
    /\ revs = {}
    /\ admin = [a \in Admins |-> NoAdmin]
    /\ facts \in HostFacts
    /\ moves = 0

\* read_runtime_configuration: the overrides of the current revision.
CurrentOverrides ==
    IF conf.revision = 0 THEN Empty
    ELSE (CHOOSE r \in revs : r.revision = conf.revision).overrides

\* The current revision has a row with the pointer's fingerprint; anything else is an error.
Readable ==
    IF conf.revision = 0 THEN conf.fingerprint = NoFingerprint
    ELSE \E r \in revs : r.revision = conf.revision /\ r.fingerprint = conf.fingerprint

\* _validate_overrides on _host_facts.
Valid(o, f) == o \in Allowed[f]

-----------------------------------------------------------------------------

\* snapshot: the revision an administrator starts from.
Snapshot(a) ==
    /\ admin[a].pc = "idle" /\ Readable
    /\ admin' = [admin EXCEPT ![a] = [NoAdmin EXCEPT !.pc = "editing", !.seen = conf.revision]]
    /\ UNCHANGED <<conf, revs, facts, moves>>

\* apply up to its transaction: an invalid set is refused.
ValidateApply(a) ==
    /\ admin[a].pc = "editing"
    /\ \E o \in Overrides :
        /\ Valid(o, facts)
        /\ admin' = [admin EXCEPT ![a].pc = "applying", ![a].want = o, ![a].facts = facts]
    /\ UNCHANGED <<conf, revs, facts, moves>>

\* persist_runtime_configuration: the next revision, the pointer and the audit event.
Persist(a) ==
    LET next == conf.revision + 1
        print == Fingerprint(admin[a].want, admin[a].facts)
    IN  /\ revs' = revs \union {[revision |-> next, overrides |-> admin[a].want,
                                 fingerprint |-> print, based |-> admin[a].seen]}
        /\ conf' = [revision |-> next, fingerprint |-> print]

Done(a) == admin' = [admin EXCEPT ![a] = NoAdmin]

\* As if the revision the administrator started from were not compared.
ApplyUnchecked(a) ==
    /\ admin[a].pc = "applying" /\ Readable
    /\ conf.revision < MaxRevision
    /\ IF admin[a].want = CurrentOverrides THEN UNCHANGED <<conf, revs>> ELSE Persist(a)
    /\ Done(a)
    /\ UNCHANGED <<facts, moves>>

\* The transaction of apply, under the lock of the pointer's row: another revision than the
\* expected one is a conflict, the same overrides change nothing.
Apply(a) ==
    /\ admin[a].pc = "applying" /\ Readable
    /\ conf.revision < MaxRevision
    /\ IF conf.revision # admin[a].seen \/ admin[a].want = CurrentOverrides
       THEN UNCHANGED <<conf, revs>>
       ELSE Persist(a)
    /\ Done(a)
    /\ UNCHANGED <<facts, moves>>

\* The request is given up, or its transaction fails and is rolled back.
GiveUp(a) ==
    /\ admin[a].pc \in {"editing", "applying"}
    /\ Done(a)
    /\ UNCHANGED <<conf, revs, facts, moves>>

\* A directory, a log file or a unit comes or goes; the environment changes with a restart.
HostChanges ==
    /\ moves < MaxMoves
    /\ facts' \in HostFacts \ {facts}
    /\ moves' = moves + 1
    /\ UNCHANGED <<conf, revs, admin>>

ConfigurationNext ==
    \/ \E a \in Admins : Snapshot(a) \/ ValidateApply(a) \/ Apply(a) \/ GiveUp(a)
    \/ HostChanges

ConfigurationSpec == ConfigurationInit /\ [][ConfigurationNext]_fvars

\* However administrators and the host interleave: the current revision can be read, the
\* revisions are numbered without a gap up to it, each replaces the very revision its author
\* had read, by other overrides, and was valid on the host its fingerprint names
\* (configuration.py, configuration_repository.py).
RevisionsChained ==
    /\ Readable
    /\ {r.revision : r \in revs} = 1 .. conf.revision
    /\ \A r \in revs :
        /\ r.based = r.revision - 1
        /\ \E f \in Facts : r.fingerprint = Fingerprint(r.overrides, f) /\ Valid(r.overrides, f)
        /\ \A q \in revs : /\ q.revision = r.revision => q = r
                           /\ q.revision = r.revision + 1 => q.overrides # r.overrides
=============================================================================
