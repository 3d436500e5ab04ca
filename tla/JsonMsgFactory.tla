--------------------------- MODULE JsonMsgFactory ---------------------------
(***************************************************************************)
(* The JSON format of messages (corelib/json_msg_factory.c, cJSON.c).      *)
(*                                                                         *)
(* For each type, which fields the writer puts into the text of a message b *)
(* and which the reader takes from it.  A field that is not read keeps the *)
(* value it has in a new OekMsg.                                           *)
(***************************************************************************)
EXTENDS OekMsg

(* The tags the writer puts into the text of a message b.                  *)

JsonConCmdWrites(b) == {"extentname", "username", "pwd", "version"} \cup NonZero(b, {"cid", "rb"})
JsonConResWrites(b) == {"sid", "version"} \cup NonZero(b, {"cid"})
JsonPutCmdWrites(b) == {"tuple", "data"} \cup NonZero(b, {"cid", "tid", "dur", "bytes"})
JsonPutResWrites(b) == {"lid"} \cup NonZero(b, {"cid"})
JsonGetCmdWrites(b) ==
  {"tuple", "templates"} \cup
  NonZero(b, {"cid", "tid", "timeout", "max", "remove", "ifexists", "join",
              "return_attrs", "return_bytes"})
JsonGetResWrites(b) ==
  {"nresults"} \cup NonZero(b, {"cid", "tid", "destroyed"})
  \cup (IF b.return_bytes THEN NonZero(b, {"bytes"}) ELSE {})
  \cup (IF b.return_attrs /\ b.data # <<>> THEN {"tuple", "data"} ELSE {})
JsonStaCmdWrites(b) == NonZero(b, {"cid", "dur"})
JsonStaResWrites(b) == NonZero(b, {"cid", "tid"})
JsonUplCmdWrites(b) == NonZero(b, {"cid", "dur", "lid"})
JsonUplResWrites(b) == NonZero(b, {"cid", "exptime"})
JsonUptCmdWrites(b) == {"enlisted", "status"} \cup NonZero(b, {"cid", "tid", "dur"})
JsonUptResWrites(b) == {"status"} \cup NonZero(b, {"cid"})
JsonErrWrites(b) == NonZero(b, {"cid", "etype", "message"})
JsonDisCmdWrites(b) == {}

(* json_msg_serialize.                                                     *)
JsonWrites(type, b) ==
  CASE type = "CON_CMD" -> JsonConCmdWrites(b) [] type = "CON_RES" -> JsonConResWrites(b)
    [] type = "PUT_CMD" -> JsonPutCmdWrites(b) [] type = "PUT_RES" -> JsonPutResWrites(b)
    [] type = "GET_CMD" -> JsonGetCmdWrites(b) [] type = "GET_RES" -> JsonGetResWrites(b)
    [] type = "STA_CMD" -> JsonStaCmdWrites(b) [] type = "STA_RES" -> JsonStaResWrites(b)
    [] type = "UPL_CMD" -> JsonUplCmdWrites(b) [] type = "UPL_RES" -> JsonUplResWrites(b)
    [] type = "UPT_CMD" -> JsonUptCmdWrites(b) [] type = "UPT_RES" -> JsonUptResWrites(b)
    [] type = "OEK_ERR" -> JsonErrWrites(b)    [] type = "DIS_CMD" -> JsonDisCmdWrites(b)

(* The tags the reader takes.  It reads no cid of an error, and looks for  *)
(* an answer's "destroyed" under the name of another tag.                  *)
JsonConCmdReads == {"cid", "version", "extentname", "username", "pwd", "rb"}
JsonConResReads == {"cid", "version", "extentname", "sid"}
JsonPutCmdReads == {"cid", "tid", "dur", "bytes", "tuple", "data"}
JsonPutResReads == {"lid", "cid"}
JsonGetCmdReads == {"cid", "tid", "timeout", "max", "templates", "tuple", "join", "ifexists",
                    "remove", "return_attrs", "return_bytes"}
JsonGetResReads == {"cid", "nresults", "tuple", "data", "bytes"}
JsonStaCmdReads == {"cid", "dur"}
JsonStaResReads == {"tid", "cid"}
JsonUplCmdReads == {"cid", "dur", "lid"}
JsonUplResReads == {"cid", "exptime"}
JsonUptCmdReadsUnenlisted == {"cid", "tid", "dur", "status"}
JsonUptCmdReads == {"cid", "tid", "dur", "status", "enlisted"}
JsonUptResReads == {"cid", "status"}
JsonErrReads == {"message", "etype"}
JsonDisCmdReads == {}

(* _command_create.                                                        *)
JsonCommandReads(name) ==
  CASE name = "CON_CMD" -> JsonConCmdReads [] name = "PUT_CMD" -> JsonPutCmdReads
    [] name = "GET_CMD" -> JsonGetCmdReads [] name = "STA_CMD" -> JsonStaCmdReads
    [] name = "UPL_CMD" -> JsonUplCmdReads [] name = "UPT_CMD" -> JsonUptCmdReads
    [] name = "DIS_CMD" -> JsonDisCmdReads

(* _response_create.                                                       *)
JsonResponseReads(name) ==
  CASE name = "CON_RES" -> JsonConResReads [] name = "PUT_RES" -> JsonPutResReads
    [] name = "GET_RES" -> JsonGetResReads [] name = "STA_RES" -> JsonStaResReads
    [] name = "UPL_RES" -> JsonUplResReads [] name = "UPT_RES" -> JsonUptResReads

(* json_msg_create.                                                        *)
JsonReads(type) ==
  CASE type \in Command -> JsonCommandReads(type)
    [] type = "OEK_ERR" -> JsonErrReads
    [] OTHER -> JsonResponseReads(type)

(* (int) n of parse_number: out of an int's range C leaves the result      *)
(* open; a build has the low bits of the number or the smallest int.       *)
JsonIntWide(x, smallest) == x
JsonInt(x, smallest) ==
  IF IsInt(x) THEN x ELSE IF smallest THEN IntMin ELSE Wrap(x)

(* The timeout of a get is narrowed before it is written.  Bytes are       *)
(* written in base 64; a put decodes them, an answer does not.             *)
JsonNarrowed(type, b) == IF type = "GET_CMD" THEN [b EXCEPT !.timeout = Wrap(@)] ELSE b
JsonOnWire(f, v) == IF f = "bytes" THEN "base64" ELSE v
JsonValue(type, f, v, smallest) ==
  CASE f \in NumberField -> JsonInt(v, smallest)
    [] f = "bytes" /\ type = "PUT_CMD" -> "raw"
    [] OTHER -> v
JsonDefault(type, f) == IF type = "GET_CMD" /\ f = "max" THEN 1 ELSE Unset(f)
=============================================================================
