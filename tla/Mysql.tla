-------------------------------- MODULE Mysql --------------------------------
(***************************************************************************)
(* How the probe of the galera driver talks to one server: db.Query of     *)
(* database/sql on the vendored go-sql-driver/mysql, then the rows.        *)
(*                                                                         *)
(* A conversation is [stage, tries]: what is done next, and how many        *)
(* connections were opened for the query.  The connection, the greeting,   *)
(* the login and the answer to each query are a step each, of as many      *)
(* packets as the answer has.                                              *)
(* Sequence numbers, buffers, flags and the scrambled password only decide *)
(* whether a packet can be read and written, never what happens next, and  *)
(* are left out; a server numbers its packets properly.                    *)
(*                                                                         *)
(* A healthy server answers what it is asked.  Another one refuses the     *)
(* connection, answers with an error packet, drops the connection, or      *)
(* keeps it open and says nothing.                                         *)
(***************************************************************************)
EXTENDS Naturals, Sequences, Functions

CONSTANT BadConnRetries   \* connections that database/sql opens for a query (10)

ASSUME MysqlAssumption == BadConnRetries \in Nat \ {0}

\* What reading and writing make of the faults a server may show: it drops the
\* connection, is silent, or sends an error packet where another is expected.
\* "bad" is driver.ErrBadConn, "stuck" an endless wait: no read has a timeout.
fill == [broken |-> "bad", silence |-> "stuck"]
readPacket(error) == [error |-> error, broken |-> fill.broken, silence |-> fill.silence]
writePacket == [broken |-> "bad"]

handleErrorPacket == "failed"
readInitPacket == readPacket(handleErrorPacket)
writeAuthPacket == writePacket

\* An end-of-file packet, the request for an old password, is an error too.
readResultOK == readPacket(handleErrorPacket)

writeCommandPacketStr == writePacket
readResultSetHeaderPacket == readPacket(handleErrorPacket)

\* An error packet is no column.
readColumns == readPacket("failed")

\* Everything but an end-of-file packet is skipped, an error packet too, after
\* which the server has nothing more to say.
readUntilEOF == readPacket("stuck")

\* An error packet is read as a string longer than the packet, and that is
\* io.EOF, which is eof to the caller.
readRow(eof) == readPacket(eof)

\* For textRows.Next io.EOF is the end of the rows; rows.Next of database/sql is
\* false then and after any other error, and galeraProbe does not look which.
rowsNext(end) == [readRow(end) EXCEPT !.broken = end]

\* MySQLDriver.Open after the dial: the greeting and the login ...
Greeting == <<readInitPacket>>
Login == <<writeAuthPacket, readResultOK>>

\* ... and the value of max_allowed_packet.
getSystemVar ==
  <<writeCommandPacketStr, readResultSetHeaderPacket, readUntilEOF, readRow("failed"),
    readUntilEOF>>

Query == <<writeCommandPacketStr, readResultSetHeaderPacket, readColumns>>

\* The rows in the order of the comment of wrangler_galera.go: the members, then
\* wsrep_connected, without which the probe fails, and the end.
Rows == <<rowsNext("failed"), rowsNext("failed"), rowsNext("done")>>

Conversation ==
  [init |-> [io |-> Greeting, then |-> "auth"],
   auth |-> [io |-> Login, then |-> "limit"],
   limit |-> [io |-> getSystemVar, then |-> "query"],
   query |-> [io |-> Query \o Rows, then |-> "done"]]

\* What a stage may come to when a fault meets one of its packets.
Faults ==
  [stage \in DOMAIN Conversation |->
     UNION {Range(call) : call \in Range(Conversation[stage].io)}]

Dial == [stage |-> "dial", tries |-> 1]
Idle == [stage |-> "idle", tries |-> 0]
Stuck == [stage |-> "stuck", tries |-> 0]
Over(stage) == [stage |-> stage, tries |-> 0]

\* database/sql opens another connection for a query that met ErrBadConn.
Again(tries) ==
  IF tries < BadConnRetries THEN [stage |-> "dial", tries |-> tries + 1] ELSE Over("failed")

After(talk, outcome) ==
  CASE outcome = "bad" -> Again(talk.tries)
    [] outcome \in {"stuck", "failed", "done"} -> Over(outcome)
    [] OTHER -> [talk EXCEPT !.stage = outcome]

\* nd.Dial with the timeout of the dsn: a server that is not healthy may still
\* accept the connection.
Dialed(talk, healthy) ==
  {[talk EXCEPT !.stage = "init"]} \cup (IF healthy THEN {} ELSE {Over("failed")})

\* What a conversation may come to in its next step: all packets of the stage
\* arrive, or one does not.
Turns(talk, healthy) ==
  IF talk.stage = "dial" THEN Dialed(talk, healthy)
  ELSE IF healthy THEN {After(talk, Conversation[talk.stage].then)}
  ELSE {After(talk, outcome) : outcome \in Faults[talk.stage]}

Stages == {"dial"} \cup DOMAIN Conversation
Talks == {Idle, Stuck} \cup [stage : Stages, tries : 1 .. BadConnRetries]
=============================================================================
