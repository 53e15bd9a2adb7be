---------------------------- MODULE PruneCommand ----------------------------
(***************************************************************************)
(* webhook prune --owner <id> [--tunnel ...] [--domain-filter ...]         *)
(* [--apply] (cmd/webhook/prune.go), run while others list and write the   *)
(* account.                                                                *)
(*                                                                         *)
(* The command reads its lists first, as one of the listers of RouteList,  *)
(* then deletes what it found by id, one call a route.  Every failed       *)
(* delete is counted and the rest goes on; the deadline (pruneTimeout)     *)
(* makes all further calls fail.                                           *)
(***************************************************************************)
EXTENDS RouteList

CONSTANTS
    prune,          \* the lister that is the command
    owner,          \* --owner
    domainFilter    \* the hostnames --domain-filter matches

ASSUME PruneAssumption ==
    prune \in Lister \ Capped /\ owner \in Owner /\ domainFilter \subseteq Host

VARIABLES
    command,    \* the command
    writers     \* history: the ids others have written to

vars == <<book, nextId, list, owed, left, changes, faults, command, writers>>

Command ==
    [apply:    BOOLEAN,     \* --apply
     pc:       {"list", "delete", "exit"},
     found:    SUBSET Row,  \* what is to delete still
     expired:  BOOLEAN,     \* the deadline has passed
     failures: Nat,
     status:   {"none", "pruneOK", "pruneFailed"}]

Init ==
    /\ ListInit
    /\ \E apply \in BOOLEAN:
          command = [apply |-> apply, pc |-> "list", found |-> {}, expired |-> FALSE,
                     failures |-> 0, status |-> "none"]
    /\ writers = {}

others == <<list, changes, writers>>

-----------------------------------------------------------------------------

(* Exactly this owner's tag (RouteTaggedBy), and inside the filter. *)
Matches(r) == r.tag = owner /\ r.host \in domainFilter

(* Mutation of Found: an id listed twice is found twice. *)
Found_Twice(read) == {e \in read: Matches(e.route)}

(* Each id once, however often it was listed; which of its rows does not
   matter. *)
Found(read) ==
    LET hits == {e \in read: Matches(e.route)}
    IN  {CHOOSE e \in hits: e.route.id = id : id \in Ids(Shown(hits))}

EndList ==
    /\ command.pc = "list"
    /\ list[prune].state # "reading"
    /\ command' =
          LET found == Found(list[prune].read)
          IN  IF list[prune].state = "failed"
              THEN [command EXCEPT !.pc = "exit", !.status = "pruneFailed"]
              ELSE IF found = {} \/ ~command.apply
              THEN [command EXCEPT !.pc = "exit", !.status = "pruneOK"]
              ELSE [command EXCEPT !.pc = "delete", !.found = found]
    /\ UNCHANGED <<account, owed, left, faults, others>>

(* One route found is tried; the order, by hostname, does not matter here. *)
Tried(e, failed) ==
    /\ command.pc = "delete"
    /\ e \in command.found
    /\ command' = [command EXCEPT !.found = @ \ {e},
                                  !.failures = @ + IF failed THEN 1 ELSE 0]

(* Mutation of Delete: whatever route the hostname has by now. *)
Delete_ByName(e) ==
    /\ Tried(e, FALSE)
    /\ ~command.expired
    /\ \E r \in book: r.host = e.route.host /\ Removes(r.id)
    /\ UNCHANGED <<faults, others>>

Delete(e) ==
    /\ Tried(e, FALSE)
    /\ ~command.expired
    /\ Removes(e.route.id)
    /\ UNCHANGED <<faults, others>>

(* The id is gone, or the deadline has passed. *)
DeleteRefused(e) ==
    /\ Tried(e, TRUE)
    /\ command.expired \/ e.route.id \notin Ids(book)
    /\ UNCHANGED <<account, owed, left, faults, others>>

(* The call fails, or only its answer is lost. *)
DeleteFails(e) ==
    /\ faults < MaxFaults
    /\ faults' = faults + 1
    /\ Tried(e, TRUE)
    /\ Removes(e.route.id) \/ UNCHANGED <<account, owed, left>>
    /\ UNCHANGED others

Expire ==
    /\ faults < MaxFaults
    /\ faults' = faults + 1
    /\ command.pc = "delete"
    /\ command' = [command EXCEPT !.expired = TRUE]
    /\ UNCHANGED <<account, owed, left, others>>

(* Mutation of Finish: the status forgets the failures. *)
Finish_AlwaysOK ==
    /\ command.pc = "delete" /\ command.found = {}
    /\ command' = [command EXCEPT !.pc = "exit", !.status = "pruneOK"]
    /\ UNCHANGED <<account, owed, left, faults, others>>

Finish ==
    /\ command.pc = "delete" /\ command.found = {}
    /\ command' = [command EXCEPT !.pc = "exit",
                                  !.status = IF command.failures > 0 THEN "pruneFailed" ELSE "pruneOK"]
    /\ UNCHANGED <<account, owed, left, faults, others>>

-----------------------------------------------------------------------------

Read(l) == (ReadPage(l) \/ ReadLastPage(l) \/ ReadFails(l)) /\ UNCHANGED <<command, writers>>

Others ==
    /\ Write
    /\ writers' = writers \cup
          {r.id : r \in (book \ book') \cup (book' \ book)}
    /\ UNCHANGED command

Next ==
    \/ \E l \in Lister: Read(l)
    \/ EndList
    \/ \E e \in command.found: Delete(e) \/ DeleteRefused(e) \/ DeleteFails(e)
    \/ Expire
    \/ Finish
    \/ Others

Spec == Init /\ [][Next]_vars

-----------------------------------------------------------------------------
(* Properties *)

TypeOK ==
    /\ ListTypeOK
    /\ command \in Command
    /\ \A e, f \in command.found: e.route.id = f.route.id => e = f
    /\ writers \in SUBSET Nat

(* The command deletes only with --apply, and only routes it listed, inside
   the filter, with the owner's tag; one that lost the tag since lost it by
   its owner's own write.
   A name that another owner took, or that a live instance of the owner made
   again, between the list and the delete is spared ("It only ever touches
   routes carrying exactly that owner's tag"). *)
PruneSparesOthers ==
    [][\A r \in book \ book': changes' = changes =>
          /\ command.apply
          /\ r.id \in Ids(Shown(list[prune].read))
          /\ r.host \in domainFilter
          /\ r.tag = owner \/ (r.tag = Untagged /\ r.id \in writers)]_vars

InScopes(r) == \E k \in 1..Len(scopes[prune]): scopes[prune][k] \in {Account, r.tunnel}

(* Status 0 means the owner's routes are gone: of those nobody else wrote to,
   at most as many are left as routes left the pages of its list while it
   read them, whatever calls failed. *)
PruneComplete ==
    command.apply /\ command.status = "pruneOK" =>
        Cardinality({r \in book: Matches(r) /\ InScopes(r) /\ r.id \notin writers})
            <= left[prune]

(* The command fails only if a call failed, or if somebody else deleted a
   route it had listed: a route that shifts into the next page is listed
   twice, and is not deleted twice. *)
FailureExplained ==
    command.status = "pruneFailed" /\ faults = 0 =>
        \E id \in Ids(Shown(list[prune].read)) \cap writers: id \notin Ids(book)
=============================================================================
