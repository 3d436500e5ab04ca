------------------------------- MODULE OekMsg -------------------------------
(***************************************************************************)
(* The messages of the protocol (corelib/OekMsg.c, OekMsg.h and the files  *)
(* of each type beside them).                                              *)
(*                                                                         *)
(* A message is its type and a record of its fields.  Names, passwords,    *)
(* error texts and data are opaque; a template is a sequence of fields and *)
(* a get has one or several.  Numbers have a width: a message holds 64-bit *)
(* numbers, the readers of both formats make an int of them, here one of   *)
(* Width bits.                                                             *)
(***************************************************************************)
EXTENDS Integers, Sequences, FiniteSets

CONSTANTS
  Width,    \* bits of an int
  Numbers   \* the values that 64-bit fields take

IntMin == -(2 ^ (Width - 1))
IntMax == 2 ^ (Width - 1) - 1
IsInt(x) == x \in IntMin .. IntMax

ASSUME WireAssumption ==
  /\ Width \in Nat \ {0}
  /\ Numbers \subseteq Int /\ {0, 1} \subseteq Numbers

Id == {x \in Numbers : x >= 0}
Ints == {x \in Numbers : IsInt(x)}

(* The messages of each type the kernel, the server and the clients write. *)
Body(type) ==
  CASE type = "CON_CMD" -> [cid : Id, version : Ints, extentname : {"name"},
                            username : {"name"}, pwd : {"word"}, rb : BOOLEAN]
    [] type = "CON_RES" -> [cid : Id, version : Ints, extentname : {"null", "name"}, sid : Id]
    [] type = "PUT_CMD" -> [cid : Id, tid : Id, dur : Numbers, tuple : BOOLEAN,
                            data : {<<"d">>, <<"d", "e">>}, bytes : {"none", "raw"}]
    [] type = "PUT_RES" -> [cid : Id, lid : Id]
    [] type = "GET_CMD" -> [cid : {1}, tid : Id, timeout : Numbers, max : {0, 1, IntMax},
                            remove : BOOLEAN, ifexists : BOOLEAN, join : BOOLEAN,
                            return_attrs : BOOLEAN, return_bytes : BOOLEAN, tuple : BOOLEAN,
                            templates : {<<<<"d">>>>, <<<<"d">>, <<"e">>>>}]
    [] type = "GET_RES" -> [cid : Id, tid : {0, 1}, nresults : {0, 1, IntMax}, destroyed : BOOLEAN,
                            return_attrs : BOOLEAN, return_bytes : BOOLEAN, tuple : BOOLEAN,
                            data : {<<>>, <<"d">>}, bytes : {"none", "raw"}]
    [] type = "STA_CMD" -> [cid : Id, dur : Numbers]
    [] type = "STA_RES" -> [cid : Id, tid : Id \ {0}]
    [] type = "UPL_CMD" -> [cid : Id, lid : Id, dur : Numbers]
    [] type = "UPL_RES" -> [cid : Id, exptime : Numbers]
    [] type = "UPT_CMD" -> [cid : Id, tid : Id, dur : Numbers, enlisted : Ints, status : {"C", "R"}]
    [] type = "UPT_RES" -> [cid : Id, status : {"C", "R"}]
    [] type = "OEK_ERR" -> [cid : Id, etype : Id, message : {"null", "text"}]
    [] type = "DIS_CMD" -> [cid : Id]

Type == {"CON_CMD", "CON_RES", "PUT_CMD", "PUT_RES", "GET_CMD", "GET_RES", "STA_CMD",
         "STA_RES", "UPL_CMD", "UPL_RES", "UPT_CMD", "UPT_RES", "OEK_ERR", "DIS_CMD"}

NumberField == {"cid", "tid", "lid", "sid", "dur", "exptime", "timeout", "max",
                "nresults", "enlisted", "version", "etype"}
FlagField == {"rb", "remove", "ifexists", "join", "return_attrs", "return_bytes",
              "tuple", "destroyed"}

(* What a field of a new message is.                                       *)
Unset(f) ==
  CASE f \in NumberField -> 0
    [] f \in FlagField -> FALSE
    [] f \in {"data", "templates"} -> <<>>
    [] f = "bytes" -> "none"
    [] OTHER -> "null"

(* The int that the low bits of a number make.                             *)
Wrap(x) == ((x - IntMin) % (2 ^ Width)) + IntMin

NonZero(b, F) == {f \in F : b[f] # Unset(f)}

Command == {"CON_CMD", "PUT_CMD", "GET_CMD", "STA_CMD", "UPL_CMD", "UPT_CMD", "DIS_CMD"}

Fields == [type \in Type |-> DOMAIN (CHOOSE b \in Body(type) : TRUE)]
Field(type) == Fields[type]
=============================================================================
