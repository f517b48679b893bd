------------------------ MODULE AuthorizationLease ------------------------
(***************************************************************************)
(* The exclusion lease over the authorization of one vault                 *)
(* (shared/authorization-mutation-lease.ts).  A writer of authorization    *)
(* state announces itself with a pending intent, whose transaction is      *)
(* conditional on the lease (beginVaultMutationIntent in shared/utils.ts); *)
(* an approved access or content transaction takes the lease and then      *)
(* reads the pending intents, so that each of the two sees the other.      *)
(*                                                                         *)
(* Every request reads the clock before it sends, and the write may reach  *)
(* the table much later; the hosts' clocks agree.  A lease id is drawn for *)
(* one acquisition, so that the id stands for the acquirer.                *)
(***************************************************************************)
EXTENDS Integers

CONSTANTS Lease,       \* lease ids, each of one acquisition
          AuthWriter,  \* intents of mutations that change authorization
          FileWriter,  \* intents of the other mutations: no condition
          Place,       \* the sort order of the intents in the query
          LeaseTtl,    \* 120 seconds, in ticks
          LastHour     \* bound: the clock stops here

Announcer == AuthWriter \cup FileWriter

ASSUME LeaseAssumption == /\ LeaseTtl \in Nat \ {0}
                          /\ LastHour \in Nat
                          /\ Place \in [Announcer -> Nat \ {0}]
                          /\ "none" \notin Lease
                          /\ AuthWriter \cap FileWriter = {}

VARIABLES hour,      \* the clock
          row,       \* the lease on the vault row
          announced, \* pending intents
          author,    \* the requests that announce intents
          acquirer   \* the acquisitions

leaseVars == <<hour, row, announced, author, acquirer>>

NoLease == [id |-> "none", expires |-> 0]

LeaseRow == [id : Lease, expires : Nat]

(* An author is new, has read the clock (under: the lease it runs under,   *)
(* or NoLease), and has sent its transaction.                              *)
AuthorState == [at : {"new", "sending", "sent"}, now : Nat, under : LeaseRow \cup {NoLease}]

(* An acquirer has read the clock, sent its update, reads the pages of     *)
(* intents after its cursor, holds the lease, or must give it back.        *)
AcquirerState == [at : {"new", "sending", "reading", "held", "leaving", "done"},
                  now : Nat, expires : Nat, cursor : Nat]

LeaseTypeOK ==
    /\ hour \in 0 .. LastHour
    /\ row \in LeaseRow \cup {NoLease}
    /\ announced \subseteq Announcer
    /\ author \in [Announcer -> AuthorState]
    /\ acquirer \in [Lease -> AcquirerState]

LeaseInit ==
    /\ hour = 0
    /\ row = NoLease
    /\ announced = {}
    /\ author = [w \in Announcer |-> [at |-> "new", now |-> 0, under |-> NoLease]]
    /\ acquirer = [l \in Lease |-> [at |-> "new", now |-> 0, expires |-> 0, cursor |-> 0]]

LeaseOf(l) == [id |-> l, expires |-> acquirer[l].expires]

(* authorizationMutationAdmission: no lease, an expired one, or the        *)
(* writer's own.                                                           *)
Admits(now, under) == row = NoLease \/ row.expires <= now \/ row = under

(* An author of an authorization change reads the clock; it may run under  *)
(* a lease its invocation holds (withAuthorityMutation).                   *)
PrepareChange(w) ==
    /\ w \in AuthWriter
    /\ author[w].at = "new"
    /\ \E under \in {NoLease} \cup {LeaseOf(l) : l \in {m \in Lease : acquirer[m].at = "held"}} :
          author' = [author EXCEPT ![w] = [at |-> "sending", now |-> hour, under |-> under]]
    /\ UNCHANGED <<hour, row, announced, acquirer>>

(* The put of the intent: in a transaction with the condition when the     *)
(* mutation names authorization generations, on its own otherwise.         *)
Announce(w) ==
    /\ author[w].at = IF w \in FileWriter THEN "new" ELSE "sending"
    /\ author' = [author EXCEPT ![w].at = "sent"]
    /\ announced' = IF w \in FileWriter \/ Admits(author[w].now, author[w].under)
                    THEN announced \cup {w} ELSE announced
    /\ UNCHANGED <<hour, row, acquirer>>

(* Its commit or abort, or a reconciliation of what a crash left behind,   *)
(* removes the intent.                                                     *)
Resolve(w) ==
    /\ w \in announced
    /\ announced' = announced \ {w}
    /\ UNCHANGED <<hour, row, author, acquirer>>

Stand(l, at) == acquirer' = [acquirer EXCEPT ![l].at = at]

(* acquire: the expiry is fixed before the update is sent.                 *)
Ask(l) ==
    /\ acquirer[l].at = "new"
    /\ acquirer' = [acquirer EXCEPT ![l] = [@ EXCEPT !.at = "sending", !.now = hour,
                                                     !.expires = hour + LeaseTtl]]
    /\ UNCHANGED <<hour, row, announced, author>>

(* The conditional update; when it is refused, fails or loses its answer,  *)
(* the code gives back the lease it may have.                              *)
TakeLease(l) ==
    /\ acquirer[l].at = "sending"
    /\ \/ /\ Admits(acquirer[l].now, NoLease)
          /\ row' = LeaseOf(l)
          /\ \E at \in {"reading", "leaving"} : Stand(l, at)
       \/ /\ row' = row
          /\ Stand(l, "leaving")
    /\ UNCHANGED <<hour, announced, author>>

(* One page of the consistent query over the intents, up to place p; the   *)
(* loop goes on while the page returned a key to start from.               *)
PageBetween(c, p) == {w \in announced : Place[w] > c /\ Place[w] <= p}

(* A mutant: the key of the last page is not followed.                     *)
OneQuery(p) == FALSE

MorePages(p) == \E w \in Announcer : Place[w] > p

ReadPage(l) ==
    /\ acquirer[l].at = "reading"
    /\ \E p \in {Place[w] : w \in Announcer} :
          /\ p > acquirer[l].cursor
          /\ IF PageBetween(acquirer[l].cursor, p) # {}
             THEN Stand(l, "leaving")
             ELSE IF MorePages(p)
             THEN acquirer' = [acquirer EXCEPT ![l].cursor = p]
             ELSE Stand(l, IF acquirer[l].expires > hour THEN "held" ELSE "leaving")
    /\ UNCHANGED <<hour, row, announced, author>>

(* A query that fails, or a page limit that is reached.                    *)
GiveUp(l) ==
    /\ acquirer[l].at = "reading"
    /\ Stand(l, "leaving")
    /\ UNCHANGED <<hour, row, announced, author>>

Finish(l) ==
    /\ acquirer[l].at = "held"
    /\ Stand(l, "leaving")
    /\ UNCHANGED <<hour, row, announced, author>>

(* release: removes this lease and no other; it may also fail, and the     *)
(* lease then stays until it expires.                                      *)
ReleaseLease(l) ==
    /\ acquirer[l].at = "leaving"
    /\ \/ row' = IF row = NoLease \/ row.id # l THEN row ELSE NoLease
       \/ row' = row
    /\ Stand(l, "done")
    /\ UNCHANGED <<hour, announced, author>>

HourPasses ==
    /\ hour < LastHour
    /\ hour' = hour + 1
    /\ UNCHANGED <<row, announced, author, acquirer>>

AcquirerStep(l) ==
    Ask(l) \/ TakeLease(l) \/ ReadPage(l) \/ GiveUp(l) \/ Finish(l) \/ ReleaseLease(l)

LeaseNext ==
    \/ \E w \in Announcer : PrepareChange(w) \/ Announce(w) \/ Resolve(w)
    \/ \E l \in Lease : AcquirerStep(l)
    \/ HourPasses

LeaseSpec == LeaseInit /\ [][LeaseNext]_leaseVars

(* While an acquired lease has not expired, it is the only one, and every  *)
(* pending change of authorization was announced under it: one that was    *)
(* admitted earlier made the acquisition fail, one that comes later is     *)
(* refused (authorization-mutation-lease.ts:78-99).                        *)
LeaseExcludesWriters ==
    \A l \in Lease : acquirer[l].at = "held" /\ hour < acquirer[l].expires =>
        /\ row = LeaseOf(l)
        /\ \A w \in announced \cap AuthWriter : author[w].under = LeaseOf(l)
===========================================================================
