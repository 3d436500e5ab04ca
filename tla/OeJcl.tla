------------------------------- MODULE OeJcl --------------------------------
(***************************************************************************)
(* The JCL format of messages (corelib/OeJclEncoder.c, OeJclDecoder.c,     *)
(* oejcl_parser.l and .y): the statement that stands for a message and its *)
(* arguments, and the message that the decoder makes of a statement.       *)
(***************************************************************************)
EXTENDS OekMsg

(* The words of a get and of its answer, and those of a transaction's end. *)
(* The answer to a cancelled lease has the text of the answer to a         *)
(* rollback.                                                               *)
JclGetAlwaysRead(b) == "read"
JclGet(b) == IF b.remove THEN "take" ELSE "read"
JclGetRes(b) == IF b.destroyed THEN "response take" ELSE "response read"

(* OeJclEncoder_msg_serialize.                                             *)
JclStatement(type, b) ==
  CASE type = "CON_CMD" -> "connect"       [] type = "CON_RES" -> "response connect"
    [] type = "PUT_CMD" -> "write"         [] type = "PUT_RES" -> "response write"
    [] type = "GET_CMD" -> JclGet(b)       [] type = "GET_RES" -> JclGetRes(b)
    [] type = "STA_CMD" -> "txn"           [] type = "STA_RES" -> "response txn"
    [] type = "UPT_CMD" -> IF b.status = "C" THEN "commit" ELSE "cancel"
    [] type = "UPT_RES" -> IF b.status = "C" THEN "response commit" ELSE "response cancel"
    [] type = "UPL_CMD" -> "cancel lease"  [] type = "UPL_RES" -> "response cancel"
    [] type = "OEK_ERR" -> "error"         [] type = "DIS_CMD" -> "dis"

(* The arguments of each statement.  Of the templates of a get only the    *)
(* first is written; an answer without data has empty brackets, which      *)
(* tell nothing of the kind of data.                                       *)
JclConnectArgs == {"cid", "extentname", "username", "pwd"}
JclDisArgs == {}
JclWriteArgs == {"cid", "tid", "dur", "tuple", "data"}
JclReadArgs == {"timeout", "cid", "tid", "tuple", "templates"}
JclTxnArgs == {"cid", "dur"}
JclCommitArgs == {"cid", "tid", "enlisted"}
JclCancelLeaseArgs == {"cid", "lid"}
JclCancelArgs == {"cid", "tid"}
JclConnectResArgs == {"cid", "sid"}
JclWriteResArgs == {"cid", "lid"}
JclTxnResArgs == {"cid", "tid"}
JclErrorArgs == {"cid", "message"}
JclReadResArgs(b) == {"cid", "nresults"} \cup (IF b.data = <<>> THEN {} ELSE {"tuple", "data"})
JclCommitResArgs == {"cid"}
JclCancelResArgs == {"cid"}
JclLeaseResArgs == {"cid"}

JclWrites(type, b) ==
  CASE type = "CON_CMD" -> JclConnectArgs      [] type = "CON_RES" -> JclConnectResArgs
    [] type = "PUT_CMD" -> JclWriteArgs        [] type = "PUT_RES" -> JclWriteResArgs
    [] type = "GET_CMD" -> JclReadArgs         [] type = "GET_RES" -> JclReadResArgs(b)
    [] type = "STA_CMD" -> JclTxnArgs          [] type = "STA_RES" -> JclTxnResArgs
    [] type = "UPT_CMD" -> IF b.status = "C" THEN JclCommitArgs ELSE JclCancelArgs
    [] type = "UPT_RES" -> IF b.status = "C" THEN JclCommitResArgs ELSE JclCancelResArgs
    [] type = "UPL_CMD" -> JclCancelLeaseArgs  [] type = "UPL_RES" -> JclLeaseResArgs
    [] type = "OEK_ERR" -> JclErrorArgs        [] type = "DIS_CMD" -> JclDisArgs

(* Durations and lease numbers are narrowed before they are written.       *)
JclNarrowed(type, b) ==
  CASE type \in {"PUT_CMD", "STA_CMD"} -> [b EXCEPT !.dur = Wrap(@)]
    [] type \in {"UPL_CMD", "PUT_RES"} -> [b EXCEPT !.lid = Wrap(@)]
    [] OTHER -> b
JclOnWire(f, v) ==
  CASE f = "templates" -> <<Head(v)>>
    [] f = "message" /\ v = "null" -> ""
    [] OTHER -> v

(* The decoder: what each statement makes of its arguments w, beside the   *)
(* fields it sets of itself.                                               *)
JclReadFields(take) == [max |-> 1, return_attrs |-> TRUE, return_bytes |-> TRUE, remove |-> take]
JclUptFields(status) == [status |-> status]
JclReadResFields(take) == [destroyed |-> take]
JclCommitResFields == [status |-> "C"]
JclCancelResFields == [status |-> "R"]

(* _msg_create and _gen_msg_from_response_stmt: the type of the message    *)
(* and the fields that are set whatever the arguments are.                 *)
JclCommandRead(stmt) ==
  CASE stmt = "connect" -> [type |-> "CON_CMD", set |-> <<>>]
    [] stmt = "dis" -> [type |-> "DIS_CMD", set |-> <<>>]
    [] stmt = "write" -> [type |-> "PUT_CMD", set |-> <<>>]
    [] stmt \in {"read", "take"} -> [type |-> "GET_CMD", set |-> JclReadFields(stmt = "take")]
    [] stmt = "txn" -> [type |-> "STA_CMD", set |-> <<>>]
    [] stmt = "commit" -> [type |-> "UPT_CMD", set |-> JclUptFields("C")]
    [] stmt = "cancel" -> [type |-> "UPT_CMD", set |-> JclUptFields("R")]
    [] stmt = "cancel lease" -> [type |-> "UPL_CMD", set |-> <<>>]
    [] stmt = "error" -> [type |-> "OEK_ERR", set |-> <<>>]
JclResponseRead(stmt) ==
  CASE stmt = "response connect" -> [type |-> "CON_RES", set |-> <<>>]
    [] stmt = "response write" -> [type |-> "PUT_RES", set |-> <<>>]
    [] stmt \in {"response read", "response take"} ->
         [type |-> "GET_RES", set |-> JclReadResFields(stmt = "response take")]
    [] stmt = "response txn" -> [type |-> "STA_RES", set |-> <<>>]
    [] stmt = "response commit" -> [type |-> "UPT_RES", set |-> JclCommitResFields]
    [] stmt = "response cancel" -> [type |-> "UPT_RES", set |-> JclCancelResFields]
JclResponses == {"response connect", "response write", "response read", "response take",
                 "response txn", "response commit", "response cancel"}
JclRead(stmt) == IF stmt \in JclResponses THEN JclResponseRead(stmt) ELSE JclCommandRead(stmt)

(* The arguments that the decoder of each type looks at.                   *)
JclConnectReads == {"cid", "extentname", "username", "pwd"}
JclUplReads == {"cid", "lid"}
JclReadReads == {"tid", "cid", "timeout", "tuple", "templates"}
JclWriteReads == {"tid", "cid", "dur", "tuple", "data"}
JclTxnReads == {"cid", "dur"}
JclUptReads == {"cid", "enlisted", "tid"}
JclWriteResReads == {"cid", "lid"}
JclReadResReads == {"cid", "nresults", "tuple", "data"}
JclTxnResReads == {"cid", "tid"}
JclUptResReads == {"cid"}
JclConnectResReads == {"cid", "sid"}
JclErrorReads == {"cid", "message"}

JclReads(type) ==
  CASE type = "CON_CMD" -> JclConnectReads [] type = "CON_RES" -> JclConnectResReads
    [] type = "PUT_CMD" -> JclWriteReads   [] type = "PUT_RES" -> JclWriteResReads
    [] type = "GET_CMD" -> JclReadReads    [] type = "GET_RES" -> JclReadResReads
    [] type = "STA_CMD" -> JclTxnReads     [] type = "STA_RES" -> JclTxnResReads
    [] type = "UPT_CMD" -> JclUptReads     [] type = "UPT_RES" -> JclUptResReads
    [] type = "UPL_CMD" -> JclUplReads     [] type = "OEK_ERR" -> JclErrorReads
    [] type = "DIS_CMD" -> {}

(* atoi of the lexer keeps the low bits of what fits a long.               *)
JclInt(x) == Wrap(x)
JclValue(f, v) == IF f \in NumberField THEN JclInt(v) ELSE v
=============================================================================
