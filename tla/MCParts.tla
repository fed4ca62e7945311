-------------------------------- MODULE MCParts --------------------------------
(***************************************************************************)
(* Small parts that share nothing with each other - the rate limit, the    *)
(* start of a process, one request through the TypeScript proxy, the       *)
(* directory of Action files, one Action's request and its response masks  *)
(* - checked one at a time: the first state says which, the others rest.   *)
(***************************************************************************)
EXTENDS RateLimit, Startup, ProxyRequest, MCActionFiles, ActionRequest, ResponseMask

VARIABLE part

\* The text of 10 comes before that of 2, 02 is 2 and 1x is no index.
MCTokens == <<"02", "1", "10", "1x", "2", "rows">>
MCIndexOf ==
  [t \in {"02", "1", "2", "10"} |-> CASE t = "1" -> 1 [] t = "10" -> 10 [] OTHER -> 2]

Below(k, tree) == {<<k>> \o q : q \in tree}
Value == {<< >>}
Array(items) == Value \union UNION {Below(Index(i - 1), items[i]) : i \in DOMAIN items}
Object(fields) == Value \union UNION {Below(Name(t), fields[t]) : t \in DOMAIN fields}

\* Twelve rows: the second is an object, the third an array; and an object
\* whose names look like indexes.
Rows ==
  Array([i \in 1..12 |->
    CASE i = 2 -> Object([t \in {"1", "rows"} |-> Value])
      [] i = 3 -> Array(<<Value, Value, Value>>)
      [] OTHER -> Value])
MCDocuments ==
  {Object([t \in {"rows", "1"} |-> IF t = "rows" THEN Rows ELSE Value]),
   Object([t \in {"rows"} |-> Object([n \in {"1", "10", "1x"} |-> Rows])])}
MCPointers ==
  {<<"1">>, <<"rows", "1">>, <<"rows", "2">>, <<"rows", "10">>, <<"rows", "1x">>,
   <<"rows", "1", "rows">>, <<"rows", "2", "1">>, <<"rows", "2", "2">>, <<"rows", "02", "2">>}

\* Two imports, or one beside a process that loads the registry.
AtMostOneUnused == \E p \in Processes : \A q \in Processes \ {p} : stage[q] = "new"

PartsInit ==
  /\ part \in {"rate", "startup", "proxy", "files", "request", "mask"}
  /\ RateInit /\ StartupInit /\ ProxyInit /\ FilesInit /\ RequestInit /\ MaskInit
  /\ part # "rate" => inRedis
  /\ IF part = "files" THEN AtMostOneUnused /\ \E p \in Processes : stage[p] = "unused"
     ELSE \A p \in Processes : stage[p] = "unused"
  /\ part # "mask" => masks = {} /\ original = CHOOSE d \in Documents : TRUE

others == <<startupVars, proxyVars, filesVars, requestVars, maskVars>>

PartsNext ==
  /\ UNCHANGED part
  /\ \/ part = "rate" /\ RateNext /\ UNCHANGED others
     \/ /\ part = "startup" /\ StartupNext
        /\ UNCHANGED <<rateVars, proxyVars, filesVars, requestVars, maskVars>>
     \/ /\ part = "proxy" /\ ProxyNext
        /\ UNCHANGED <<rateVars, startupVars, filesVars, requestVars, maskVars>>
     \/ /\ part = "files" /\ FilesNext
        /\ UNCHANGED <<rateVars, startupVars, proxyVars, requestVars, maskVars>>
     \/ /\ part = "request" /\ RequestNext
        /\ UNCHANGED <<rateVars, startupVars, proxyVars, filesVars, maskVars>>
     \/ /\ part = "mask" /\ MaskNext
        /\ UNCHANGED <<rateVars, startupVars, proxyVars, filesVars, requestVars>>

\* A part at rest enables nothing that its fairness asks for.
PartsSpec ==
  /\ PartsInit
  /\ [][PartsNext]_<<part, rateVars, startupVars, proxyVars, filesVars, requestVars, maskVars>>
  /\ StartupFairness /\ ProxyFairness
===============================================================================
