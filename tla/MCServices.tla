------------------------------ MODULE MCServices ------------------------------
(***************************************************************************)
(* Small instances of the services for TLC, and beside them, as further    *)
(* parts, the conversions of their data over bounded inputs.               *)
(***************************************************************************)
EXTENDS Services

MCUserOf == [c1 |-> "u1", c2 |-> "u2"]
MCOneUser == [c1 |-> "u1"]
MCMatching == [n1 |-> {"p1"}, n2 |-> {"p1", "p2"}, n3 |-> {"p2"}]

Message == INSTANCE Conversions WITH
  original <- v1, current <- v2, first <- v3, side <- v4, trips <- v5

Schema == INSTANCE Schemas WITH subject <- v1, result <- v2

Template == INSTANCE PromptTemplates WITH
  Letters <- {"x", "y"}, MaxPieces <- 3,
  template <- v1, request <- v2, outcome <- v3, response <- v4

MCInit ==
  \/ Init
  \/ part = "messages" /\ Message!Init /\ v6 = 0 /\ v7 = 0 /\ v8 = 0 /\ v9 = 0
  \/ part = "schemas" /\ Schema!Init /\ v3 = 0 /\ v4 = 0 /\ v5 = 0 /\ v6 = 0 /\ v7 = 0 /\ v8 = 0 /\ v9 = 0
  \/ part = "templates" /\ Template!Init /\ v5 = 0 /\ v6 = 0 /\ v7 = 0 /\ v8 = 0 /\ v9 = 0

MessageStep == part = "messages" /\ Message!Next /\ UNCHANGED <<part, v6, v7, v8, v9>>
SchemaStep == part = "schemas" /\ Schema!Next /\ UNCHANGED <<part, v3, v4, v5, v6, v7, v8, v9>>
TemplateStep == part = "templates" /\ Template!Next /\ UNCHANGED <<part, v5, v6, v7, v8, v9>>

MCNext == Next \/ MessageStep \/ SchemaStep \/ TemplateStep

MCSpec == MCInit /\ [][MCNext]_vars
-----------------------------------------------------------------------------
(* aiconv.go: messages that were read once survive being sent again, and   *)
(* responses lose nothing of their own.                                    *)
HistoryCanBeResent ==
  part = "messages" => Message!TypeOK /\ Message!ReadBackIsStable /\ Message!ResponsesComeBack

(* gemini_schema_util.go: generated schemas are valid, and names in snake  *)
(* case are stable.  template.go: the variables of a prompt template are   *)
(* replaced at once, and strictly none is left.                            *)
SchemasSound ==
  /\ part = "schemas" => Schema!TypeOK /\ Schema!SchemasAreValid /\ Schema!SnakeCaseIsStable
  /\ part = "templates" =>
       Template!TypeOK /\ Template!ReplacesAtOnce /\ Template!StrictLeavesNoBraces
=============================================================================
