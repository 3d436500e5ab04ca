------------------------------ MODULE OepWire ------------------------------
(***************************************************************************)
(* One message on its way from the side that writes it to the side that    *)
(* reads it, in each of the formats: JSON between C programs (JsonNet.c),  *)
(* JCL between C programs (OeJclNet.c), and JSON with the Java client at   *)
(* one end (ExtentClient.java) or, as in its tests, at both.               *)
(***************************************************************************)
EXTENDS JsonMsgFactory, OeJcl, JsonMessageCoder

VARIABLES
  writer,  \* the coder that writes: "json", "jcl" or "java"
  reader,  \* the coder that reads
  sent,    \* the writer's message
  wire,    \* the statement on the wire and its tags, <<>> before it is written
  got      \* the reader's message, <<>> before it is read

vars == <<writer, reader, sent, wire, got>>

(* Who sends a message of this type to whom.  The server is a C program.   *)
Peers(type) ==
  {<<"json", "json">>, <<"jcl", "jcl">>}
  \cup (IF type \in Command THEN {<<"java", "json">>} ELSE {<<"json", "java">>})
  \cup (IF type = "OEK_ERR" THEN {} ELSE {<<"java", "java">>})

Init ==
  /\ \E type \in Type : \E p \in Peers(type) :
       /\ writer = p[1] /\ reader = p[2]
       /\ \E b \in IF writer = "java" THEN JavaBody(type) ELSE Body(type) :
            sent = [type |-> type, body |-> b]
  /\ wire = <<>> /\ got = <<>>

(* JsonNet_write_msg.                                                      *)
JsonWrite ==
  /\ writer = "json" /\ wire = <<>>
  /\ LET b == JsonNarrowed(sent.type, sent.body) IN
     wire' = [stmt |-> sent.type,
              tags |-> [f \in JsonWrites(sent.type, b) |-> JsonOnWire(f, b[f])]]
  /\ UNCHANGED <<writer, reader, sent, got>>

(* OeJclNet_write_msg.                                                     *)
JclWrite ==
  /\ writer = "jcl" /\ wire = <<>>
  /\ LET b == JclNarrowed(sent.type, sent.body) IN
     wire' = [stmt |-> JclStatement(sent.type, b),
              tags |-> [f \in JclWrites(sent.type, b) |-> JclOnWire(f, b[f])]]
  /\ UNCHANGED <<writer, reader, sent, got>>

(* toString of the Java coder.                                             *)
JavaWrite ==
  /\ writer = "java" /\ wire = <<>>
  /\ wire' = [stmt |-> sent.type,
              tags |-> [f \in JavaWrites(sent.type, sent.body) |-> JavaOnWire(f, sent.body[f])]]
  /\ UNCHANGED <<writer, reader, sent, got>>

(* JsonNet_read_msg.                                                       *)
JsonReadMsg ==
  /\ reader = "json" /\ wire # <<>> /\ got = <<>>
  /\ \E smallest \in BOOLEAN :
       got' = [type |-> wire.stmt,
               body |-> [f \in Field(wire.stmt) |->
                           IF f \in JsonReads(wire.stmt) \cap DOMAIN wire.tags
                             THEN JsonValue(wire.stmt, f, wire.tags[f], smallest)
                             ELSE JsonDefault(wire.stmt, f)]]
  /\ UNCHANGED <<writer, reader, sent, wire>>

(* OeJclNet_read_msg.                                                      *)
JclReadMsg ==
  /\ reader = "jcl" /\ wire # <<>> /\ got = <<>>
  /\ LET r == JclRead(wire.stmt) IN
     got' = [type |-> r.type,
             body |-> [f \in Field(r.type) |->
                         CASE f \in DOMAIN r.set -> r.set[f]
                           [] f \in JclReads(r.type) \cap DOMAIN wire.tags -> JclValue(f, wire.tags[f])
                           [] OTHER -> Unset(f)]]
  /\ UNCHANGED <<writer, reader, sent, wire>>

(* fromString of the Java coder.                                           *)
JavaReadMsg ==
  /\ reader = "java" /\ wire # <<>> /\ got = <<>>
  /\ LET tag(f) == JavaTag(wire.stmt, f, wire.tags) IN
     got' = [type |-> wire.stmt,
             body |-> [f \in Field(wire.stmt) |->
                         IF f \in JavaReads(wire.stmt) /\ tag(f) \in DOMAIN wire.tags
                           THEN JavaValue(f, wire.tags[tag(f)])
                           ELSE JavaDefault(wire.stmt, f)]]
  /\ UNCHANGED <<writer, reader, sent, wire>>

Next == JsonWrite \/ JclWrite \/ JavaWrite \/ JsonReadMsg \/ JclReadMsg \/ JavaReadMsg

Spec == Init /\ [][Next]_vars

-----------------------------------------------------------------------------
(* Properties.                                                             *)

(* A message that has been read has the fields of its type, and every      *)
(* number in it is an int, whatever number the writer held, unless it was  *)
(* read by Java: nothing that needs more bits comes through parse_number   *)
(* or atoi.                                                                *)
TypeOK ==
  /\ sent.type \in Type /\ <<writer, reader>> \in Peers(sent.type)
  /\ wire = <<>> => got = <<>>
  /\ got # <<>> => /\ got.type \in Type /\ DOMAIN got.body = Field(got.type)
                   /\ reader # "java" =>
                        \A f \in NumberField \cap DOMAIN got.body : IsInt(got.body[f])

(* What does not come through, though every number is an int.  JSON: the   *)
(* extent of a connect answer, a maximum of 0 (read as 1), the transaction *)
(* and the "destroyed" of an answer, its bytes (left in base 64), its data *)
(* unless it has some and was asked for it, the call an error is about.    *)
JsonLost(type, b) ==
  CASE type = "CON_RES" -> {"extentname"}
    [] type = "GET_CMD" -> IF b.max = 0 THEN {"max"} ELSE {}
    [] type = "GET_RES" ->
         {"tid", "destroyed", "return_attrs", "return_bytes", "bytes"}
         \cup (IF b.return_attrs /\ b.data # <<>> THEN {} ELSE {"tuple", "data"})
    [] type \in {"OEK_ERR", "DIS_CMD"} -> {"cid"}
    [] OTHER -> {}

(* JCL: the versions, the wish of a connection to have its transactions    *)
(* rolled back, bytes, the options of a get and all templates but the      *)
(* first, the duration of a lease, the enlisted count of a rollback, the   *)
(* number of an error and everything but the cid of a lease's answer.      *)
JclLost(type, b) ==
  CASE type = "CON_CMD" -> {"version", "rb"}
    [] type = "CON_RES" -> {"version", "extentname"}
    [] type = "PUT_CMD" -> {"bytes"}
    [] type = "GET_CMD" -> {"max", "ifexists", "join", "return_attrs", "return_bytes"}
                           \cup (IF Len(b.templates) > 1 THEN {"templates"} ELSE {})
    [] type = "GET_RES" -> {"tid", "return_attrs", "return_bytes", "bytes"}
                           \cup (IF b.data = <<>> THEN {"tuple"} ELSE {})
    [] type = "UPL_CMD" -> {"dur"}
    [] type = "UPL_RES" -> {"exptime"}
    [] type = "UPT_CMD" -> {"dur"} \cup (IF b.status = "C" THEN {} ELSE {"enlisted"})
    [] type = "OEK_ERR" -> {"etype"} \cup (IF b.message = "null" THEN {"message"} ELSE {})
    [] type = "DIS_CMD" -> {"cid"}
    [] OTHER -> {}

(* JSON with Java.  A C reader gets everything that Java has.  Java keeps  *)
(* no extent of a connect answer, takes every answer for a tuple, and does *)
(* not learn whether the item is gone.  Its tests, which read commands and *)
(* write answers, would lose more: the kind of a get and what it asks for, *)
(* all but one template, the cid and the number of a lease that is updated *)
(* or a transaction that ends, and the number of a new lease.              *)
JavaToCLost(type, b) == IF type = "DIS_CMD" THEN {"cid"} ELSE {}
CToJavaLost(type, b) ==
  CASE type = "CON_RES" -> {"extentname"}
    [] type = "GET_RES" ->
         {"destroyed", "return_attrs", "return_bytes", "tuple"}
         \cup (IF b.return_attrs THEN {} ELSE {"data"})
         \cup (IF b.return_bytes THEN {} ELSE {"bytes"})
    [] OTHER -> {}
JavaToJavaLost(type, b) ==
  CASE type = "DIS_CMD" -> {"cid"}
    [] type = "GET_CMD" -> {"tuple", "return_attrs", "return_bytes"}
                           \cup (IF Len(b.templates) > 1 THEN {"templates"} ELSE {})
    [] type = "UPL_CMD" -> {"cid", "lid"}
    [] type = "UPT_CMD" -> {"tid"} \cup (IF b.tid = 0 THEN {} ELSE {"cid"})
    [] type = "CON_RES" -> {"extentname"}
    [] type = "GET_RES" -> {"tuple"}
    [] type = "PUT_RES" -> {"lid"}
    [] OTHER -> {}

Lost ==
  CASE <<writer, reader>> = <<"json", "json">> -> JsonLost(sent.type, sent.body)
    [] <<writer, reader>> = <<"jcl", "jcl">> -> JclLost(sent.type, sent.body)
    [] <<writer, reader>> = <<"java", "json">> -> JavaToCLost(sent.type, sent.body)
    [] <<writer, reader>> = <<"json", "java">> -> CToJavaLost(sent.type, sent.body)
    [] <<writer, reader>> = <<"java", "java">> -> JavaToJavaLost(sent.type, sent.body)

(* What one side writes the other reads, but for the fields listed above:  *)
(* the tables of json_msg_factory.c for writing and for reading, those of  *)
(* the JCL encoder and decoder, and those of the Java coder, agree field   *)
(* by field.  A C reader needs every number to fit an int; a Java reader   *)
(* gets any number the server writes.                                      *)
RoundTrip ==
  /\ got # <<>>
  /\ reader # "java" => \A f \in NumberField \cap DOMAIN sent.body : IsInt(sent.body[f])
  => \A f \in DOMAIN sent.body \ Lost : f \in DOMAIN got.body /\ got.body[f] = sent.body[f]

(* However large the numbers are, a message is not read as one that does   *)
(* something else: a take stays a take, a commit a commit, an error an     *)
(* error.  Only the answer to a cancelled lease comes out of JCL as the    *)
(* answer to a rollback.                                                   *)
CommandKept ==
  got # <<>> =>
    /\ got.type = IF reader = "jcl" /\ sent.type = "UPL_RES" THEN "UPT_RES" ELSE sent.type
    /\ \A f \in {"remove", "status"} \cap DOMAIN sent.body : got.body[f] = sent.body[f]
=============================================================================
