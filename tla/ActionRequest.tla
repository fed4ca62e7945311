----------------------------- MODULE ActionRequest -----------------------------
(***************************************************************************)
(* From an ActionDefinition to a request (app/action.rs): a definition is  *)
(* written by hand or drafted from an operation of an OpenAPI document     *)
(* (app/openapi.rs), validated as the registry loads it, and then run with *)
(* arguments that its input schema admits.  Validation promises what the   *)
(* building of the request relies on, far away from it.                    *)
(*                                                                         *)
(* A schema is a scalar, a closed object or array, or one that leaves room *)
(* for unknown properties.  Names, texts, sizes and the output schema are  *)
(* not modelled: a definition that they condemn is refused here as well.   *)
(***************************************************************************)
EXTENDS Integers, FiniteSets

CONSTANTS
  Arguments,   (* names of arguments                                        *)
  BodyArgument, (* the one called "body"                                    *)
  NoArgument

ASSUME ArgumentsAssumption == BodyArgument \in Arguments /\ NoArgument \notin Arguments

VARIABLES
  action,      (* the definition                                            *)
  step,        (* how far it has got                                        *)
  given,       (* the arguments of a run                                    *)
  built        (* the request: where each argument goes                     *)

requestVars == <<action, step, given, built>>

Verbs == {"GET", "POST", "DELETE"}
Risks == {"read", "reversible-write", "destructive", "privileged"}
Approvals == {"never", "always", "policy"}
Schemas == {"absent", "scalar", "closed", "open"}
Locations == {"none", "path", "query", "body"}
NoRequest == [path |-> {}, query |-> {}, body |-> {}, header |-> {}]

Blank ==
  [method |-> "GET", risk |-> "read", approval |-> "never", allowPrivileged |-> FALSE,
   enabled |-> TRUE, placeholders |-> {}, required |-> {}, ifMatch |-> NoArgument,
   schema |-> [a \in Arguments |-> "absent"], location |-> [a \in Arguments |-> "none"]]

RequestInit ==
  /\ action = Blank /\ step = "new"
  /\ given = {} /\ built = NoRequest

-----------------------------------------------------------------------------
(* validate_definition.                                                      *)

Properties(d) == {a \in Arguments : d.schema[a] # "absent"}
Scalars(d) == {a \in Arguments : d.schema[a] = "scalar"}
At(d, place) == {a \in Arguments : d.location[a] = place}

\* The risk, the method and the approval belong together.
RiskIsConsistent(d) ==
  /\ d.risk = "read" <=> d.method = "GET"
  /\ d.risk = "read" <=> d.approval = "never"
  /\ d.approval # "policy"
  /\ d.risk = "privileged" => d.allowPrivileged

InputIsClosed(d) == \A a \in Arguments : d.schema[a] # "open"

PathIsMapped(d) == d.placeholders \subseteq At(d, "path") \intersect d.required

\* Slip: a path parameter need not have a placeholder.
ParametersAreLocatedAnywhere(d) ==
  /\ Arguments \ At(d, "none") \subseteq Properties(d)
  /\ At(d, "path") \union At(d, "query") \subseteq Scalars(d)
  /\ d.method = "GET" => At(d, "body") = {} /\ Properties(d) \subseteq Scalars(d)

\* A GET sends what has no location of its own in the query.
ParametersAreLocated(d) ==
  /\ Arguments \ At(d, "none") \subseteq Properties(d)
  /\ At(d, "path") \subseteq d.placeholders
  /\ At(d, "path") \union At(d, "query") \subseteq Scalars(d)
  /\ d.method = "GET" => At(d, "body") = {} /\ Properties(d) \subseteq Scalars(d)

PreconditionIsGiven(d) ==
  d.ifMatch # NoArgument => d.risk # "read" /\ d.ifMatch \in d.required \intersect Scalars(d)

Valid(d) ==
  /\ RiskIsConsistent(d) /\ InputIsClosed(d)
  /\ PathIsMapped(d) /\ ParametersAreLocated(d) /\ PreconditionIsGiven(d)

\* The registry and the importer take a definition or fail with it.
Validate(d) ==
  /\ action' = IF Valid(d) THEN d ELSE Blank
  /\ step' = IF Valid(d) THEN "valid" ELSE "refused"
  /\ UNCHANGED <<given, built>>

-----------------------------------------------------------------------------
(* Where definitions come from.                                              *)

\* A file is written in two steps, as it is validated in this order.
Write ==
  /\ step = "new"
  /\ \E m \in Verbs, r \in Risks, how \in Approvals, allow \in BOOLEAN :
       LET d == [Blank EXCEPT !.method = m, !.risk = r, !.approval = how,
                              !.allowPrivileged = allow] IN
       /\ action' = IF RiskIsConsistent(d) THEN d ELSE Blank
       /\ step' = IF RiskIsConsistent(d) THEN "written" ELSE "refused"
  /\ UNCHANGED <<given, built>>

ReadDefinition ==
  /\ step = "written"
  /\ \E s \in [Arguments -> Schemas], l \in [Arguments -> Locations],
        places, req \in SUBSET Arguments, etag \in Arguments \union {NoArgument} :
       Validate([action EXCEPT !.schema = s, !.location = l, !.placeholders = places,
                               !.required = req, !.ifMatch = etag])

\* The draft of an operation: its method tells its risk, and it is disabled.
Draft(m, places, in, kinds, flagged, body) ==
  LET risk == IF m = "GET" THEN "read"
              ELSE IF m = "DELETE" THEN "destructive" ELSE "reversible-write"
      declared == {a \in Arguments : in[a] # "none"} IN
  [Blank EXCEPT
     !.method = m, !.risk = risk, !.enabled = FALSE, !.placeholders = places,
     !.approval = IF risk = "read" THEN "never" ELSE "always",
     !.schema = [a \in Arguments |->
       IF a \in declared THEN kinds[a] ELSE IF a = BodyArgument THEN body ELSE "absent"],
     !.location = [a \in Arguments |->
       IF a = BodyArgument /\ body # "absent" THEN "body" ELSE in[a]],
     !.required = {a \in declared : a \in flagged \/ in[a] = "path"}
                  \union (IF body # "absent" THEN flagged \intersect {BodyArgument} ELSE {})]

\* build_input_schema: parameters outside path and query, one called "body" beside a
\* body, and a body with dynamic names are refused; the others of its objects are closed.
Import ==
  /\ step = "new"
  /\ \E m \in Verbs, places, flagged \in SUBSET Arguments, body \in Schemas,
        in \in [Arguments -> {"none", "path", "query", "other"}],
        kinds \in [Arguments -> Schemas \ {"absent"}] :
       IF \/ \E a \in Arguments : in[a] = "other"
          \/ body # "absent" /\ in[BodyArgument] # "none"
          \/ body = "open"
         THEN action' = Blank /\ step' = "refused" /\ UNCHANGED <<given, built>>
         ELSE Validate(Draft(m, places, in, kinds, flagged, body))

\* The operator's review.
Enable ==
  /\ step = "valid" /\ ~action.enabled
  /\ action' = [action EXCEPT !.enabled = TRUE]
  /\ UNCHANGED <<step, given, built>>

-----------------------------------------------------------------------------
(* build_request, after validate_instance.                                   *)

Admits(d, arguments) == d.required \subseteq arguments /\ arguments \subseteq Properties(d)

Place(d, a) ==
  IF d.location[a] # "none" THEN d.location[a]
  ELSE IF d.method = "GET" THEN "query" ELSE "body"

\* What an error of build_request is about: a placeholder without its argument, an argument
\* of path, query or If-Match that is no scalar.
CannotBuild(d, arguments) ==
  LET texts == {a \in arguments \ d.placeholders : Place(d, a) = "query"} IN
  \/ d.placeholders \ arguments # {}
  \/ (arguments \intersect (d.placeholders \union texts)) \ Scalars(d) # {}
  \/ d.ifMatch # NoArgument /\ d.ifMatch \notin arguments \intersect Scalars(d)

\* Arguments of the path and of If-Match are used up; the rest goes to its
\* place, where "path" is none.
Run ==
  /\ step = "valid" /\ action.enabled
  /\ given' \in {g \in SUBSET Arguments : Admits(action, g)}
  /\ LET inPath == given' \intersect action.placeholders
         inHeader == {action.ifMatch} \intersect given'
         rest == given' \ (inPath \union inHeader) IN
     IF CannotBuild(action, given')
       THEN step' = "failed" /\ UNCHANGED built
       ELSE /\ step' = "built"
            /\ built' = [path |-> inPath, header |-> inHeader,
                 query |-> {a \in rest : Place(action, a) = "query"},
                 body |-> {a \in rest : Place(action, a) = "body"}]
  /\ UNCHANGED action

RequestNext == Write \/ ReadDefinition \/ Import \/ Enable \/ Run

RequestSpec == RequestInit /\ [][RequestNext]_requestVars

-----------------------------------------------------------------------------
(* Properties.                                                               *)

\* A definition that was accepted builds a request from any arguments its schema
\* admits, and the request says all that was approved: no argument is dropped, none
\* sent in two places (an If-Match value may be in the path as well), and a read
\* has no body (action.rs:1073 relies on action.rs:286-345).
ArgumentsAreSentOnce ==
  /\ step # "failed"
  /\ step = "built" =>
       /\ given = UNION {built.path, built.query, built.body, built.header}
       /\ built.path \intersect (built.query \union built.body) = {}
       /\ built.query \intersect built.body = {}
       /\ built.header \intersect (built.query \union built.body) = {}
       /\ action.method = "GET" => built.body = {}
===============================================================================
