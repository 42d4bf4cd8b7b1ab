------------------------------ MODULE Portals ------------------------------
(***************************************************************************)
(* The extended query protocol of one connection (16_wire.c): prepared     *)
(* statements, the one portal, the error that lasts until Sync, and the    *)
(* statement arena under them (10_controller.c), which every statement run *)
(* winds back.  The client sends whatever it likes; a message is a step,   *)
(* and a step's replies are in the order they were sent.                   *)
(*                                                                         *)
(* Replies have the letters of the protocol: 1 2 3 Parse, Bind and Close   *)
(* complete, t T n the descriptions, D a row, s suspended, C complete,     *)
(* E error, Z ready.                                                       *)
(***************************************************************************)
EXTENDS Integers, Sequences, FiniteSets, SequencesExt

CONSTANTS
  Selects,        \* statement texts that only read and return rows
  Commands,       \* statement texts that return none
  Mangled,        \* a text no Bind has finished writing
  StatementNames, \* names of prepared statements
  PortalNames,    \* names of portals
  MaxPrepared,    \* MAX_PREPARED
  MaxRows,        \* bound: rows of a result
  Limits,         \* row limits of Execute, 0 for none
  Queries         \* the texts of a Query message, cut into statements

ASSUME MaxPreparedAssumption == MaxPrepared \in Nat \ {0}

\* A limit is an int of the message, negative ones included, and one of those
\* whose sum with the rows sent is an int too.
ASSUME PortalsAssumption ==
  /\ MaxRows \in Nat
  /\ Limits \subseteq Int
  /\ \A limit \in Limits : limit <= 2147483647 - MaxRows
  /\ PortalNames # {}
  /\ Queries \subseteq Seq(Selects \cup Commands)

VARIABLES
  prepared,   \* the text of each prepared statement, by name
  portal,     \* the portal and its result
  ignoring,   \* ignoringUntilSync
  replies,    \* what the last message was answered
  ran,        \* the statements the last message ran, with success or without
  errored,    \* an error was sent since the last ReadyForQuery
  runs,       \* successful runs of the portal since it was bound
  given       \* rows of it the client got

vars == <<prepared, portal, ignoring, replies, ran, errored, runs, given>>

Texts == Selects \cup Commands

NoPortal == [used |-> FALSE, name |-> CHOOSE n \in PortalNames : TRUE, text |-> Mangled,
             executed |-> FALSE, sent |-> 0, rows |-> 0, wound |-> FALSE]

-----------------------------------------------------------------------------
(* Answers and runs *)

(* ProcessStatement winds the arena back before it does anything else, so  *)
(* the rows a portal kept no longer have their text.                       *)
WindBack(p) == [p EXCEPT !.wound = @ \/ p.executed]

(* How a run can end *)
Outcomes(text) ==
  {[ok |-> FALSE, rows |-> 0]} \cup
  {[ok |-> TRUE, rows |-> n] : n \in IF text \in Commands THEN {0} ELSE 0 .. MaxRows}

Answer(answers) ==
  /\ replies' = answers
  /\ errored' = IF answers = <<>> THEN errored
                ELSE Last(answers) = "E" \/ (errored /\ Last(answers) # "Z")

\* (mutant) the rest of the batch is served
ErrorOnly(answers) == Answer(Append(answers, "E")) /\ UNCHANGED ignoring

FailExtended(answers) == Answer(Append(answers, "E")) /\ ignoring' = TRUE

\* (mutant) a portal that ran is not marked
Ended(p, outcome) == [p EXCEPT !.rows = outcome.rows, !.sent = 0, !.wound = FALSE]

Executed(p, outcome) ==
  [p EXCEPT !.executed = outcome.ok, !.rows = outcome.rows,
            !.sent = IF outcome.ok THEN 0 ELSE @, !.wound = FALSE]

(* The portal runs when it has not: once for a Bind *)
RunPortal(outcome) ==
  IF portal.used /\ ~portal.executed
  THEN [portal |-> Executed(portal, outcome), ran |-> <<portal.text>>,
        ok |-> outcome.ok, success |-> outcome.ok]
  ELSE [portal |-> portal, ran |-> <<>>, ok |-> portal.used, success |-> FALSE]

Count(n, success) == IF success THEN n + 1 ELSE n

-----------------------------------------------------------------------------
(* The messages *)

(* Skipped is every message but Sync while an error is being sat out *)
Serving == ~ignoring

Skip ==
  /\ ignoring
  /\ replies' = <<>> /\ ran' = <<>>
  /\ UNCHANGED <<prepared, portal, ignoring, errored, runs, given>>

NoPlace(name) == name \notin DOMAIN prepared /\ Cardinality(DOMAIN prepared) = MaxPrepared

(* A statement of the name is replaced, otherwise a free place taken.  A   *)
(* message that turns out short is refused with the text already replaced. *)
Parse(name, text) ==
  /\ Serving
  /\ ran' = <<>>
  /\ UNCHANGED <<portal, runs, given>>
  /\ IF NoPlace(name)
     THEN FailExtended(<<>>) /\ UNCHANGED prepared
     ELSE /\ prepared' = [n \in DOMAIN prepared \cup {name} |->
                            IF n = name THEN text ELSE prepared[n]]
          /\ \/ Answer(<<"1">>) /\ UNCHANGED ignoring
             \/ FailExtended(<<>>)

(* The parameters are written straight into the portal's text: one that is *)
(* missing leaves the text half written and the portal as it was.          *)
Bind(name, statement) ==
  /\ Serving
  /\ ran' = <<>>
  /\ UNCHANGED prepared
  /\ \/ /\ statement \in DOMAIN prepared
        /\ portal' = [portal EXCEPT !.used = TRUE, !.name = name, !.text = prepared[statement],
                                    !.executed = FALSE, !.sent = 0]
        /\ runs' = 0 /\ given' = 0
        /\ Answer(<<"2">>) /\ UNCHANGED ignoring
     \/ /\ statement \in DOMAIN prepared
        /\ portal' = [portal EXCEPT !.text = Mangled]
        /\ FailExtended(<<>>) /\ UNCHANGED <<runs, given>>
     \/ FailExtended(<<>>) /\ UNCHANGED <<portal, runs, given>>

(* A SELECT is run, up to three times, to see what columns come back; its   *)
(* rows are thrown away.                                                   *)
DescribeStatement(name) ==
  /\ Serving
  /\ UNCHANGED <<prepared, runs, given>>
  /\ IF name \notin DOMAIN prepared
     THEN FailExtended(<<>>) /\ ran' = <<>> /\ UNCHANGED portal
     ELSE IF prepared[name] \notin Selects
     THEN Answer(<<"t", "n">>) /\ ran' = <<>> /\ UNCHANGED <<portal, ignoring>>
     ELSE \/ FailExtended(<<"t">>) /\ ran' = <<>> /\ UNCHANGED portal
          \/ \E attempts \in 1 .. 3, ok \in BOOLEAN :
               /\ ran' = [i \in 1 .. attempts |-> prepared[name]]
               /\ portal' = WindBack(portal)
               /\ IF ok THEN Answer(<<"t", "T">>) /\ UNCHANGED ignoring
                  ELSE attempts = 3 /\ FailExtended(<<"t">>)

(* Describing the portal runs it, whatever name it is asked by *)
DescribePortal ==
  /\ Serving
  /\ UNCHANGED <<prepared, given>>
  /\ \E outcome \in Outcomes(portal.text) :
       LET run == RunPortal(outcome)
       IN /\ portal' = run.portal /\ ran' = run.ran
          /\ runs' = Count(runs, run.success)
          /\ IF ~run.ok THEN FailExtended(<<>>)
             ELSE /\ UNCHANGED ignoring
                  /\ Answer(IF portal.text \in Commands THEN <<"n">> ELSE <<"T">>)

\* (mutant) a limit is counted from the first row
LimitFromStart(p, limit) == IF limit > 0 /\ limit < p.rows THEN limit ELSE p.rows

(* The row an Execute stops after *)
StopAfter(p, limit) == IF limit > 0 /\ p.sent + limit < p.rows THEN p.sent + limit ELSE p.rows

(* The rows not sent yet, as many as asked for; the name is not looked at *)
Execute(limit) ==
  /\ Serving
  /\ UNCHANGED prepared
  /\ \E outcome \in Outcomes(portal.text) :
       LET run == RunPortal(outcome)
           last == StopAfter(run.portal, limit)
       IN /\ ran' = run.ran
          /\ runs' = Count(runs, run.success)
          /\ IF ~run.ok THEN portal' = run.portal /\ FailExtended(<<>>) /\ UNCHANGED given
             ELSE /\ portal' = [run.portal EXCEPT !.sent = last]
                  /\ given' = given + (last - run.portal.sent)
                  /\ Answer([r \in 1 .. last - run.portal.sent |-> "D"] \o
                            <<IF last < run.portal.rows THEN "s" ELSE "C">>)
                  /\ UNCHANGED ignoring

CloseStatement(name) ==
  /\ Serving
  /\ prepared' = [n \in DOMAIN prepared \ {name} |-> prepared[n]]
  /\ Answer(<<"3">>) /\ ran' = <<>>
  /\ UNCHANGED <<portal, ignoring, runs, given>>

ClosePortal(name) ==
  /\ Serving
  /\ portal' = IF portal.used /\ portal.name = name
               THEN [portal EXCEPT !.used = FALSE, !.executed = FALSE] ELSE portal
  /\ Answer(<<"3">>) /\ ran' = <<>>
  /\ UNCHANGED <<prepared, ignoring, runs, given>>

(* A simple query: the portal goes, the statements run until one fails or  *)
(* is too long to run, and the client is told once that the server is      *)
(* ready.                                                                  *)
Query(texts) ==
  /\ Serving
  /\ portal' = [portal EXCEPT !.used = FALSE, !.executed = FALSE]
  /\ \E done \in 0 .. Len(texts), tooLong \in BOOLEAN :
       /\ ran' = SubSeq(texts, 1, IF done = Len(texts) \/ tooLong THEN done ELSE done + 1)
       /\ Answer([i \in 1 .. done |-> "C"] \o (IF done < Len(texts) THEN <<"E">> ELSE <<>>) \o <<"Z">>)
  /\ UNCHANGED <<prepared, ignoring, runs, given>>

Sync ==
  /\ ignoring' = FALSE
  /\ Answer(<<"Z">>) /\ ran' = <<>>
  /\ UNCHANGED <<prepared, portal, runs, given>>

(* A message of no known type *)
Unknown ==
  /\ Serving
  /\ FailExtended(<<>>) /\ ran' = <<>>
  /\ UNCHANGED <<prepared, portal, runs, given>>

(* After the handshake: everything a Session starts with is zero *)
Init ==
  /\ prepared = <<>>
  /\ portal = NoPortal
  /\ ignoring = FALSE
  /\ replies = <<"Z">> /\ ran = <<>>
  /\ errored = FALSE
  /\ runs = 0 /\ given = 0

Next ==
  \/ Skip \/ Sync \/ Unknown \/ DescribePortal
  \/ \E n \in StatementNames, text \in Texts : Parse(n, text)
  \/ \E n \in PortalNames, statement \in StatementNames : Bind(n, statement)
  \/ \E n \in StatementNames : DescribeStatement(n) \/ CloseStatement(n)
  \/ \E n \in PortalNames : ClosePortal(n)
  \/ \E limit \in Limits : Execute(limit)
  \/ \E texts \in Queries : Query(texts)

Spec == Init /\ [][Next]_vars

-----------------------------------------------------------------------------
(* Properties *)

TypeOK ==
  /\ DOMAIN prepared \subseteq StatementNames
  /\ \A n \in DOMAIN prepared : prepared[n] \in Texts
  /\ Cardinality(DOMAIN prepared) <= MaxPrepared
  /\ portal \in [used : BOOLEAN, name : PortalNames, text : Texts \cup {Mangled},
                 executed : BOOLEAN, sent : 0 .. MaxRows, rows : 0 .. MaxRows, wound : BOOLEAN]
  /\ ignoring \in BOOLEAN /\ errored \in BOOLEAN

(* "Runs the portal, once, and keeps the rows": however often a bound      *)
(* statement is described and executed, in however many batches, it takes  *)
(* effect once.                                                            *)
RunsOnce == portal.used => runs <= 1 /\ (portal.executed => runs = 1)

(* However the client cuts a result up with row limits, and whatever else  *)
(* it does in between, it is given each row of the portal once and in      *)
(* order: a portal is suspended only with rows to come, and then has given *)
(* some, and is complete only when it has given them all.                  *)
EachRowOnce ==
  [][/\ portal'.used /\ portal'.executed => given' = portal'.sent
     /\ replies' # <<>> /\ Last(replies') = "s" => Len(replies') > 1 /\ given' < portal'.rows
     /\ replies' # <<>> /\ Last(replies') = "C" => given' = portal'.rows]_vars

(* "After an error the protocol says to skip to the next Sync, and clients *)
(* rely on it: they send a whole batch and then look": between the error   *)
(* and the ReadyForQuery that ends the batch nothing is run and nothing    *)
(* said, and no message is answered ReadyForQuery twice.                   *)
SilentAfterError ==
  [][/\ errored => ran' = <<>> /\ replies' \in {<<>>, <<"Z">>}
     /\ Cardinality({i \in DOMAIN replies' : replies'[i] = "Z"}) <= 1
     /\ \A i \in DOMAIN replies' : replies'[i] = "E" => i >= Len(replies') - 1]_vars

(* The rows a portal has not sent yet still have their text: "Rows kept    *)
(* from an earlier Execute would be pointing at memory the next statement  *)
(* has already reused" (16_wire.c).                                        *)
RowsAreLive == portal.used /\ portal.executed /\ portal.sent < portal.rows => ~portal.wound
=============================================================================
