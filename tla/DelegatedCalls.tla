----------------------------- MODULE DelegatedCalls -----------------------------
(***************************************************************************)
(* Calls of a delegated child (delegated_tasks.py, delegated_routes.py,    *)
(* AuthorizedDeviceMCP._child_session).  The HTTP service of one computer, *)
(* the source, confines a child to its grant and either works on a local   *)
(* file or forwards the call, under the credential of a second child, to   *)
(* the service of another computer, the target, which confines that child  *)
(* in the same way.  The module follows one operation ID of the child:     *)
(* requests that use it, and lookups of it (operations_get).               *)
(*                                                                         *)
(* A grant stands for the child's and its parent's.  Lookups have IDs of   *)
(* their own, used once.  How a ledger keeps its rows is OperationLedger;  *)
(* how a routed call claims its one dispatch is DeviceRouter.              *)
(***************************************************************************)
EXTENDS Naturals

CONSTANTS Call, MaxCrashes, None

VARIABLES
    grant,    \* the child's grant on each computer
    route,    \* the source's credential for the target child: [row, secret, right]
    input,    \* operation_inputs: the request the ID is bound to
    bound,    \* remote_operations: the target the ID is bound to
    row,      \* the receipt of the ID in the ledger of each computer
    file,     \* the file worker of each computer
    call,     \* requests under way: [kind, pc]
    wire,     \* the forwarded request on its way to the target
    crashes,
    disk, told, botched, late \* history: what was written, answered, undone in vain, too late

grantVars == <<grant, route>>
history == <<told, botched, late>>
delegatedVars == <<grant, route, input, bound, row, file, call, wire, crashes, disk, history>>

Node == {"source", "target"}
Finished == {"completed", "undone"}
Active(n) == grant[n] = "active"
RouteOpen == route.row = "active" /\ route.secret

DelegatedInit ==
    /\ grant = [n \in Node |-> "none"]
    /\ route = [row |-> "none", secret |-> FALSE, right |-> FALSE]
    /\ input = None /\ bound = FALSE
    /\ row = [n \in Node |-> "absent"] /\ file = [n \in Node |-> "none"]
    /\ call = [k \in Call |-> [kind |-> None, pc |-> "new"]]
    /\ wire = "none" /\ crashes = 0
    /\ disk = [n \in Node |-> 0] /\ told = {} /\ botched = FALSE /\ late = FALSE

------------------------------------------------------------------------------
(* The owner's administration (delegation_admin.py).                       *)

Issue(n) ==
    /\ grant[n] = "none" /\ grant' = [grant EXCEPT ![n] = "active"]
    /\ UNCHANGED <<route, input, bound, row, file, call, wire, crashes, disk, history>>

\* A file worker holds a write reservation on both databases until its file is done.
Guarding(n) == file[n] \in {"guarded", "written"}
Revoke(n) ==
    /\ Active(n) /\ ~Guarding(n)
    /\ grant' = [grant EXCEPT ![n] = "revoked"]
    /\ UNCHANGED <<route, input, bound, row, file, call, wire, crashes, disk, history>>

\* The secret is saved before the row; the owner may name another child than it belongs to.
BindRoute ==
    /\ Active("source") /\ route.row = "none"
    /\ \E saved, right \in BOOLEAN :
          route' = [row |-> IF saved THEN "active" ELSE "none", secret |-> TRUE, right |-> right]
    /\ UNCHANGED <<grant, input, bound, row, file, call, wire, crashes, disk, history>>

\* The row is disabled first; the credential store may then fail.
RevokeRoute ==
    /\ route.row # "none"
    /\ \E kept \in {FALSE, route.secret} :
          route' = [route EXCEPT !.row = "inactive", !.secret = kept]
    /\ UNCHANGED <<grant, input, bound, row, file, call, wire, crashes, disk, history>>

------------------------------------------------------------------------------
(* A file worker: its result is recorded also when its caller is gone.     *)

Enter(n) ==
    /\ file[n] = "created"
    /\ file' = [file EXCEPT ![n] = IF Active(n) THEN "guarded" ELSE "undone"]
    /\ UNCHANGED <<grantVars, input, bound, row, call, wire, crashes, disk, history>>

Write(n) ==
    /\ file[n] = "guarded"
    /\ \/ /\ file' = [file EXCEPT ![n] = "written"]
          /\ disk' = [disk EXCEPT ![n] = @ + 1]
          /\ late' = (late \/ ~Active(n))
       \/ file' = [file EXCEPT ![n] = "undone"] /\ UNCHANGED <<disk, late>>
    /\ UNCHANGED <<grantVars, input, bound, row, call, wire, crashes, told, botched>>

\* An error while the temporary file is removed is answered as if nothing had been done.
Unlock(n) ==
    /\ file[n] = "written"
    /\ \/ file' = [file EXCEPT ![n] = "completed"] /\ UNCHANGED botched
       \/ file' = [file EXCEPT ![n] = "undone"] /\ botched' = TRUE
    /\ UNCHANGED <<grantVars, input, bound, row, call, wire, crashes, disk, told, late>>

FinishFile(n) ==
    /\ file[n] \in Finished
    /\ row' = [row EXCEPT ![n] = file[n]]
    /\ file' = [file EXCEPT ![n] = "none"]
    /\ UNCHANGED <<grantVars, input, bound, call, wire, crashes, disk, history>>

FileWork(n) == Enter(n) \/ Write(n) \/ Unlock(n) \/ FinishFile(n)

------------------------------------------------------------------------------
Goto(k, p) == call' = [call EXCEPT ![k].pc = p]
Tell(k, answer) == Goto(k, "answered") /\ told' = told \cup {answer}

\* What a caller hears of a receipt.
Receipt(n) == IF row[n] \in Finished THEN row[n] ELSE "unknown"

\* check: a denial is kept as the receipt of an ID that has none.
Deny(k) ==
    /\ row' = [row EXCEPT !["source"] = IF @ = "absent" THEN "undone" ELSE @]
    /\ Tell(k, "denied")

\* The source's ledger lets a remote request through once.
Remote(k) ==
    IF row["source"] = "absent"
    THEN row' = [row EXCEPT !["source"] = "running"] /\ Goto(k, "route") /\ UNCHANGED told
    ELSE Tell(k, Receipt("source")) /\ UNCHANGED row

Local(k) ==
    IF row["source"] = "absent"
    THEN /\ row' = [row EXCEPT !["source"] = "running"]
         /\ file' = [file EXCEPT !["source"] = "created"]
         /\ Goto(k, "file") /\ UNCHANGED told
    ELSE Tell(k, Receipt("source")) /\ UNCHANGED <<row, file>>

\* A request of the child, up to its first await.  Its ID is bound to one request for the
\* local and the remote ledger; a local path may also be out of scope.
Request(k, r) ==
    /\ call[k].pc = "new" /\ grant["source"] # "none"
    /\ IF input \notin {None, r}
       THEN /\ call' = [call EXCEPT ![k] = [kind |-> r, pc |-> "answered"]]
            /\ UNCHANGED <<input, row, file, told>>
       ELSE /\ input' = r
            /\ \/ (~Active("source") \/ r = "local") /\ Deny(k) /\ UNCHANGED file
               \/ Active("source") /\ r = "local" /\ Local(k)
               \/ Active("source") /\ r = "remote" /\ Remote(k) /\ UNCHANGED file
    /\ UNCHANGED <<grantVars, bound, wire, crashes, disk, botched, late>>

\* The caller of a local file operation waits for its worker.
AnswerFile(k) ==
    /\ call[k].pc = "file" /\ file["source"] = "none"
    /\ Tell(k, Receipt("source"))
    /\ UNCHANGED <<grantVars, input, bound, row, file, wire, crashes, disk, botched, late>>

\* A lookup goes to the target only for a request that was bound to it and whose outcome
\* the source does not have.
Lookup(k) ==
    /\ call[k].pc = "new" /\ input # None
    /\ IF Active("source") /\ input = "remote" /\ row["source"] \notin Finished /\ bound
       THEN /\ call' = [call EXCEPT ![k] = [kind |-> "lookup", pc |-> "route"]]
            /\ UNCHANGED told
       ELSE /\ call' = [call EXCEPT ![k] = [kind |-> "lookup", pc |-> "answered"]]
            /\ IF Active("source") THEN told' = told \cup {Receipt("source")} ELSE UNCHANGED told
    /\ UNCHANGED <<grantVars, input, bound, row, file, wire, crashes, disk, botched, late>>

------------------------------------------------------------------------------
(* A forwarded call.  The end of a request is recorded whatever its row    *)
(* says by then; a lookup that ends here has told nothing about the ID.    *)

EndRequest(k, result) ==
    IF call[k].kind = "lookup" THEN Goto(k, "answered") /\ UNCHANGED <<row, told>>
    ELSE row' = [row EXCEPT !["source"] = result] /\ Tell(k, result)

\* The credential is read, then the target's catalog is fetched.
Route(k) ==
    /\ call[k].pc = "route"
    /\ \/ RouteOpen /\ Goto(k, "catalog") /\ UNCHANGED <<row, told>>
       \/ EndRequest(k, "undone")
    /\ UNCHANGED <<grantVars, input, bound, file, wire, crashes, disk, botched, late>>

Cleared == Active("source") /\ RouteOpen

\* Grant and route are read again after the catalog, before the identity is asked.
Catalogued(k) ==
    /\ call[k].pc = "catalog"
    /\ \/ Cleared /\ Goto(k, "probe") /\ UNCHANGED <<row, told>>
       \/ EndRequest(k, "undone")
    /\ UNCHANGED <<grantVars, input, bound, file, wire, crashes, disk, botched, late>>

\* Both are read once more before the request leaves, behind its durable binding.
Forward(k) ==
    /\ Cleared
    /\ Goto(k, "sent")
    /\ bound' = TRUE
    /\ wire' = IF call[k].kind = "lookup" THEN wire ELSE "flying"
    /\ late' = (late \/ ~Cleared)
    /\ UNCHANGED <<row, told>>

\* The target names the child behind the credential, refuses, or does not answer.
Identified(k) ==
    /\ call[k].pc = "probe"
    /\ \/ route.right /\ Active("target") /\ Forward(k)
       \/ /\ ~(Cleared /\ route.right /\ Active("target")) /\ EndRequest(k, "undone")
          /\ UNCHANGED <<bound, wire, late>>
       \/ EndRequest(k, "unknown") /\ UNCHANGED <<bound, wire, late>>
    /\ UNCHANGED <<grantVars, input, file, crashes, disk, botched>>

\* The target treats the request as its child's local one, or turns the credential down.
Arrive ==
    /\ wire = "flying" /\ wire' = "received"
    /\ IF ~Active("target")
       THEN /\ \/ row' = [row EXCEPT !["target"] = IF @ = "absent" THEN "undone" ELSE @]
               \/ UNCHANGED row
            /\ UNCHANGED file
       ELSE IF row["target"] = "absent"
            THEN /\ row' = [row EXCEPT !["target"] = "running"]
                 /\ file' = [file EXCEPT !["target"] = "created"]
            ELSE UNCHANGED <<row, file>>
    /\ UNCHANGED <<grantVars, input, bound, call, crashes, disk, history>>

\* The reply to a request, or its loss.
Reply(k) ==
    /\ call[k].pc = "sent" /\ call[k].kind # "lookup"
    /\ \/ wire = "received" /\ file["target"] = "none" /\ EndRequest(k, Receipt("target"))
       \/ EndRequest(k, "unknown")
    /\ UNCHANGED <<grantVars, input, bound, file, wire, crashes, disk, botched, late>>

\* The reply to a lookup settles a receipt that is still open; a lost one settles nothing.
Found(k) ==
    /\ call[k].pc = "sent" /\ call[k].kind = "lookup"
    /\ \/ /\ Active("target") /\ row["target"] \in Finished
          /\ row' = [row EXCEPT !["source"] = IF @ \in Finished THEN @ ELSE row["target"]]
          /\ Tell(k, row["target"])
       \/ Goto(k, "answered") /\ UNCHANGED <<row, told>>
    /\ UNCHANGED <<grantVars, input, bound, file, wire, crashes, disk, botched, late>>

------------------------------------------------------------------------------
\* Opening a ledger turns what was running into unknown.
Recovered(n) == [row EXCEPT ![n] = IF @ = "running" THEN "unknown" ELSE @]

\* Nothing keeps another process, such as an SSH child, from opening the ledger meanwhile.
OpenedBeside(n) ==
    /\ row[n] = "running" /\ row' = Recovered(n)
    /\ UNCHANGED <<grantVars, input, bound, file, call, wire, crashes, disk, history>>

Crash(n) ==
    /\ crashes < MaxCrashes /\ crashes' = crashes + 1
    /\ row' = Recovered(n) /\ file' = [file EXCEPT ![n] = "none"]
    /\ call' = IF n = "target" THEN call
               ELSE [k \in Call |-> IF call[k].pc = "new" THEN call[k]
                                    ELSE [call[k] EXCEPT !.pc = "answered"]]
    /\ UNCHANGED <<grantVars, input, bound, wire, disk, history>>

DelegatedNext ==
    \/ \E n \in Node : Issue(n) \/ Revoke(n) \/ FileWork(n) \/ OpenedBeside(n) \/ Crash(n)
    \/ BindRoute \/ RevokeRoute \/ Arrive
    \/ \E k \in Call :
          \/ \E r \in {"local", "remote"} : Request(k, r)
          \/ AnswerFile(k) \/ Lookup(k)
          \/ Route(k) \/ Catalogued(k) \/ Identified(k) \/ Reply(k) \/ Found(k)

DelegatedSpec == DelegatedInit /\ [][DelegatedNext]_delegatedVars

------------------------------------------------------------------------------
\* One operation ID writes once, on one computer, over every retry, crash and lookup.
WrittenOnce == disk["source"] + disk["target"] <= 1

\* A receipt, and every answer taken from one, says completed only of what was written and
\* "not dispatched" only of what never will be; the one exception is a failed cleanup.
Written == IF input = "local" THEN disk["source"] = 1 ELSE disk["target"] = 1
ReceiptsTrue ==
    LET said == told \cup {row["source"]} IN
    /\ "completed" \in said => Written
    /\ "undone" \in said => ~Written \/ botched
    /\ row["target"] = "completed" => disk["target"] = 1
    /\ row["target"] = "undone" => disk["target"] = 0 \/ botched

\* Nothing is written after the grant it is written under was revoked, and nothing leaves
\* for the target after grant or route was.
RevokedStops == ~late
=============================================================================
