----------------------------- MODULE AuditChain ----------------------------
(***************************************************************************)
(* The per-organisation integrity chain of the audit log (app/modules/     *)
(* audit/service.py).  Every audited request appends rows inside its own   *)
(* transaction; each row carries the hash of the row before it, found by   *)
(* ordering on created_at, under a transaction-scoped advisory lock.       *)
(*                                                                         *)
(* One organisation is modelled: chains of different organisations share   *)
(* nothing.  A hash is modelled by the id of the row it belongs to, since  *)
(* it covers the id and no two rows have the same hash.                    *)
(***************************************************************************)
EXTENDS Integers, FiniteSets

CONSTANTS
    Sessions,    \* transactions that audit something for the organisation
    NoSession,   \* holder of a free advisory lock
    Host,        \* Host[s]: the machine session s runs on
    Skew,        \* Skew[h]: how far the clock of machine h is ahead
    MaxClock     \* bound: rows and clock readings in a behaviour

ASSUME ConstantsAssumption ==
    /\ NoSession \notin Sessions
    /\ \A s \in Sessions : Skew[Host[s]] \in Nat
    /\ MaxClock \in Nat

VARIABLES
    committed,   \* committed audit_log rows of the organisation
    own,         \* own[s]: rows session s has written and not committed
    chainLock,   \* holder of pg_advisory_xact_lock(hashtext(org))
    clock        \* true time; it passes with every row written

chainVars == <<committed, own, chainLock, clock>>

NoRow == 0

\* id: primary key, never reused; at: created_at; prev: prev_hash
AuditRow == [id : Nat \ {0}, at : Nat, prev : Nat]

ChainInit ==
    /\ committed = {}
    /\ own = [s \in Sessions |-> {}]
    /\ chainLock = NoSession
    /\ clock = 0

\* The rows a statement of session s sees under READ COMMITTED.
Visible(s) == committed \cup own[s]

\* Mutant: the head is remembered in memory instead of read back.
LatestHashCached(s, h) == h = clock

\* _latest_hash_for_org: a row no visible row is later than.  Rows with the
\* same created_at are ordered by a random UUID, so any of them may come first.
LatestHash(s, h) ==
    IF Visible(s) = {}
    THEN h = NoRow
    ELSE \E r \in Visible(s) : h = r.id /\ \A q \in Visible(s) : q.at <= r.at

\* Mutant: the head is read without waiting for the chain lock.
LogUnlocked(s, h) ==
    /\ clock < MaxClock
    /\ LatestHash(s, h)
    /\ chainLock' = s
    /\ clock' = clock + 1
    /\ own' = [own EXCEPT ![s] = @ \cup
                 {[id |-> clock + 1, at |-> clock + 1 + Skew[Host[s]], prev |-> h]}]
    /\ UNCHANGED committed

\* AuditService.log: take (or already hold) the chain lock, read the head,
\* insert the row with created_at taken from the local clock.  The lock stays
\* with the transaction.
Log(s, h) ==
    /\ clock < MaxClock
    /\ chainLock \in {s, NoSession}
    /\ LatestHash(s, h)
    /\ chainLock' = s
    /\ clock' = clock + 1
    /\ own' = [own EXCEPT ![s] = @ \cup
                 {[id |-> clock + 1, at |-> clock + 1 + Skew[Host[s]], prev |-> h]}]
    /\ UNCHANGED committed

\* The request ends: its rows become visible and the lock is released.
Commit(s) ==
    /\ chainLock = s
    /\ committed' = committed \cup own[s]
    /\ own' = [own EXCEPT ![s] = {}]
    /\ chainLock' = NoSession
    /\ UNCHANGED clock

\* The request fails: its rows vanish with everything else it wrote.
Rollback(s) ==
    /\ chainLock = s
    /\ own' = [own EXCEPT ![s] = {}]
    /\ chainLock' = NoSession
    /\ UNCHANGED <<committed, clock>>

ChainNext == \E s \in Sessions :
    \/ \E h \in 0..MaxClock : Log(s, h)
    \/ Commit(s)
    \/ Rollback(s)

ChainSpec == ChainInit /\ [][ChainNext]_chainVars

-----------------------------------------------------------------------------
(* Properties *)

\* Every variable has the type the tables give it.
TypeOK ==
    /\ committed \subseteq AuditRow
    /\ own \in [Sessions -> SUBSET AuditRow]
    /\ chainLock \in Sessions \cup {NoSession}
    /\ clock \in Nat

\* The chain never forks: no two committed rows name the same predecessor, so
\* a row cannot be dropped or inserted without breaking a hash, although the
\* rows come from concurrent transactions of which any may be rolled back.
NoFork == \A r, q \in committed : r.prev = q.prev => r = q

\* The chain has no gaps: a committed row's predecessor is committed and
\* older; no committed row hangs on one that was rolled back.
NoDanglingHash ==
    \A r \in committed : r.prev # NoRow =>
        \E q \in committed : q.id = r.prev /\ q.at < r.at
=============================================================================
