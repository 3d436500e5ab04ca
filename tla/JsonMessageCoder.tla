-------------------------- MODULE JsonMessageCoder --------------------------
(***************************************************************************)
(* The JSON format as the Java client has it (JsonMessageCoder.java, under *)
(* modules/scripting/java/javaclient): written from the same list of tags  *)
(* as json_msg_factory.c, by hand a second time.  The client writes        *)
(* commands and reads answers; the tests also read commands and write      *)
(* answers.  An error can only be read.                                    *)
(***************************************************************************)
EXTENDS OekMsg, SequencesExt

(* Fields that the classes of org.oescript.msg do not have.                *)
JavaLacks(type) ==
  CASE type = "CON_CMD" -> {"rb"}
    [] type = "GET_RES" -> {"destroyed", "return_attrs", "return_bytes"}
    [] OTHER -> {}
JavaBody(type) == {b \in Body(type) : \A f \in JavaLacks(type) : b[f] = Unset(f)}

(* commandToString and responseToString.                                   *)
JavaConCmdWrites(b) == {"extentname", "username", "pwd", "version"} \cup NonZero(b, {"cid"})
JavaDisCmdWrites(b) == {}
JavaGetCmdWrites(b) ==
  {"timeout", "max", "tuple", "templates"} \cup
  NonZero(b, {"cid", "tid", "remove", "ifexists", "return_attrs", "return_bytes", "join"})
JavaPutCmdWrites(b) == {"dur", "tuple", "data"} \cup NonZero(b, {"cid", "tid", "bytes"})
JavaStaCmdWrites(b) == {"dur"} \cup NonZero(b, {"cid"})
JavaUplCmdWrites(b) == {"dur", "lid"} \cup NonZero(b, {"cid"})
JavaUptCmdWrites(b) == {"dur", "enlisted", "status"} \cup NonZero(b, {"cid", "tid"})
JavaConResWrites(b) == {"sid", "version"} \cup NonZero(b, {"cid"})
JavaGetResWrites(b) == {"nresults", "tuple", "data"} \cup NonZero(b, {"cid", "tid", "bytes"})
JavaPutResWrites(b) == NonZero(b, {"cid"})
JavaStaResWrites(b) == NonZero(b, {"cid", "tid"})
JavaUplResWrites(b) == {"exptime"} \cup NonZero(b, {"cid"})
JavaUptResWrites(b) == {"status"} \cup NonZero(b, {"cid"})

JavaCommandWrites(type, b) ==
  CASE type = "CON_CMD" -> JavaConCmdWrites(b) [] type = "DIS_CMD" -> JavaDisCmdWrites(b)
    [] type = "GET_CMD" -> JavaGetCmdWrites(b) [] type = "PUT_CMD" -> JavaPutCmdWrites(b)
    [] type = "STA_CMD" -> JavaStaCmdWrites(b) [] type = "UPL_CMD" -> JavaUplCmdWrites(b)
    [] type = "UPT_CMD" -> JavaUptCmdWrites(b)
JavaResponseWrites(type, b) ==
  CASE type = "CON_RES" -> JavaConResWrites(b) [] type = "GET_RES" -> JavaGetResWrites(b)
    [] type = "PUT_RES" -> JavaPutResWrites(b) [] type = "STA_RES" -> JavaStaResWrites(b)
    [] type = "UPL_RES" -> JavaUplResWrites(b) [] type = "UPT_RES" -> JavaUptResWrites(b)
JavaWrites(type, b) ==
  IF type \in Command THEN JavaCommandWrites(type, b) ELSE JavaResponseWrites(type, b)

(* fromErrorString, fromCommandString and fromResponseString: the fields   *)
(* each sets, and from which tags.  The reader of an updated lease puts    *)
(* the lease's number where the cid belongs, and the reader of a           *)
(* transaction's end the transaction's.                                    *)
JavaErrReads == {"cid", "etype", "message"}
JavaConCmdReads == {"cid", "extentname", "username", "pwd", "version"}
JavaDisCmdReads == {}
JavaGetCmdReads == {"cid", "tid", "timeout", "max", "remove", "ifexists", "join", "templates"}
JavaPutCmdReads == {"cid", "tid", "dur", "bytes", "tuple", "data"}
JavaStaCmdReads == {"cid", "dur"}
JavaUplCmdReads == {"cid", "dur"}
JavaUptCmdReads == {"cid", "dur", "enlisted", "status"}
JavaConResReads == {"cid", "sid", "version"}
JavaGetResReads == {"cid", "tid", "nresults", "bytes", "data"}
JavaPutResReads == {"cid", "lid"}
JavaStaResReads == {"cid", "tid"}
JavaUplResReads == {"cid", "exptime"}
JavaUptResReads == {"cid", "status"}

JavaCommandReads(name) ==
  CASE name = "CON_CMD" -> JavaConCmdReads [] name = "DIS_CMD" -> JavaDisCmdReads
    [] name = "GET_CMD" -> JavaGetCmdReads [] name = "PUT_CMD" -> JavaPutCmdReads
    [] name = "STA_CMD" -> JavaStaCmdReads [] name = "UPL_CMD" -> JavaUplCmdReads
    [] name = "UPT_CMD" -> JavaUptCmdReads
JavaResponseReads(name) ==
  CASE name = "CON_RES" -> JavaConResReads [] name = "GET_RES" -> JavaGetResReads
    [] name = "PUT_RES" -> JavaPutResReads [] name = "STA_RES" -> JavaStaResReads
    [] name = "UPL_RES" -> JavaUplResReads [] name = "UPT_RES" -> JavaUptResReads
JavaReads(type) ==
  CASE type \in Command -> JavaCommandReads(type)
    [] type = "OEK_ERR" -> JavaErrReads
    [] OTHER -> JavaResponseReads(type)

JavaTag(type, f, tags) ==
  CASE type = "UPL_CMD" /\ f = "cid" /\ "lid" \in DOMAIN tags -> "lid"
    [] type = "UPT_CMD" /\ f = "cid" /\ "tid" \in DOMAIN tags -> "tid"
    [] OTHER -> f

(* Numbers are longs, but for the four that intValue narrows.  Bytes are   *)
(* in base 64 on the wire.  All templates of a get go into one.            *)
JavaOnWire(f, v) == IF f = "bytes" THEN "base64" ELSE v
JavaValue(f, v) ==
  CASE f \in {"version", "max", "nresults", "enlisted"} -> Wrap(v)
    [] f = "bytes" -> "raw"
    [] f = "templates" -> <<FlattenSeq(v)>>
    [] OTHER -> v

(* What the constructors set, and a reader that only ever sets it again    *)
(* leaves: a get and its answer are about tuples, and ask for everything.  *)
JavaDefault(type, f) ==
  IF \/ type = "GET_CMD" /\ f \in {"tuple", "return_attrs", "return_bytes"}
     \/ type = "GET_RES" /\ f = "tuple"
  THEN TRUE
  ELSE Unset(f)
=============================================================================
