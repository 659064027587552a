------------------------------ MODULE Extensions ------------------------------
(***************************************************************************)
(* The extension service of internal/vertexai/extension: extensions are    *)
(* imported with a remote long-running call, and the API specification and *)
(* the operation schemas of the newest one are fetched when asked for and  *)
(* cached behind specMu, which is held for writing during the fetch.       *)
(*                                                                         *)
(* Extensions are numbered as they are created; 0 is the empty name and    *)
(* the empty specification.  The runtime configuration of an extension is  *)
(* the caller whose it is; NoConfig is nil, or one of the wrong type.      *)
(* ExecuteExtension and QueryExtension are remote calls that change        *)
(* nothing here; calls that panic (an unknown prebuilt type, a list of     *)
(* texts to query with) end the process.                                   *)
(***************************************************************************)
EXTENDS Naturals, Sequences

CONSTANTS Callers,      \* goroutines that use the service, NoConfig not among them
          NoConfig,     \* no configuration
          Types,        \* types of prebuilt extensions
          Configured,   \* those whose configuration is checked
          MaxExtensions \* bound on the extensions created

VARIABLES
  extensions,   \* history: whether each has its creator's configuration, and
                \* whether another used the entry of the hub meanwhile
  hub,          \* VertexExtensionHub: the configuration in the entry of a type
  resourceName, \* the newest extension
  cached,       \* apiSpec and operationSchemas: [of, failed, raced], or Nothing
  specMu,       \* the caller that holds specMu for writing, or NoConfig
  initialized,  \* initialized
  call          \* call[c]: the step of c and its locals

vars == <<extensions, hub, resourceName, cached, specMu, initialized, call>>

Caches == {"spec", "schemas"}
Nothing == [of |-> 0, failed |-> FALSE, raced |-> FALSE, set |-> FALSE]
Filled(n, failed, raced) == [of |-> n, failed |-> failed, raced |-> raced, set |-> TRUE]

(* shared is a history: another caller used the same entry of the hub.     *)
Step(at, kind, config, shared, name) ==
  [at |-> at, kind |-> kind, config |-> config, shared |-> shared, name |-> name]
Free == Step("free", "none", NoConfig, FALSE, 0)

Init ==
  /\ extensions = <<>>
  /\ hub = [t \in Types |-> NoConfig]
  /\ resourceName = 0
  /\ cached = [k \in Caches |-> Nothing]
  /\ specMu = NoConfig
  /\ initialized = TRUE
  /\ call = [c \in Callers |-> Free]

At(c, step) == call[c].at = step
Return(c) == call' = [call EXCEPT ![c] = Free]

(* Some CreateExtension has cleared the caches and not set the name yet.   *)
Creating == \E c \in Callers : call[c].at = "assign"

-----------------------------------------------------------------------------
(* Mutation: a caller without configuration leaves the entry as it is.     *)
CreateFromHubKept(c, type, config) ==
  /\ At(c, "free")
  /\ hub' = IF config = NoConfig THEN hub ELSE [hub EXCEPT ![type] = config]
  /\ call' = [d \in Callers |->
       IF d = c THEN Step("check", type, config, \E e \in Callers : call[e].kind = type, 0)
       ELSE IF call[d].kind = type THEN [call[d] EXCEPT !.shared = TRUE] ELSE call[d]]
  /\ UNCHANGED <<extensions, resourceName, cached, specMu, initialized>>

(* The entry of the hub, which all services share, takes the configuration *)
(* before it is checked, and keeps it whatever comes of the check.         *)
CreateFromHub(c, type, config) ==
  /\ At(c, "free")
  /\ hub' = [hub EXCEPT ![type] = config]
  /\ call' = [d \in Callers |->
       IF d = c THEN Step("check", type, config, \E e \in Callers : call[e].kind = type, 0)
       ELSE IF call[d].kind = type THEN [call[d] EXCEPT !.shared = TRUE] ELSE call[d]]
  /\ UNCHANGED <<extensions, resourceName, cached, specMu, initialized>>

CheckConfig(c) ==
  /\ At(c, "check")
  /\ IF call[c].kind \in Configured /\ hub[call[c].kind] = NoConfig
     THEN Return(c)
     ELSE call' = [call EXCEPT ![c].at = "import"]
  /\ UNCHANGED <<extensions, hub, resourceName, cached, specMu, initialized>>

(* CreateExtension and CreateVertexAISearchExtension bring a request of    *)
(* their own.                                                              *)
CreateExtension(c) ==
  /\ At(c, "free")
  /\ call' = [call EXCEPT ![c] = Step("import", "none", c, FALSE, 0)]
  /\ UNCHANGED <<extensions, hub, resourceName, cached, specMu, initialized>>

(* The import, or the wait for it, may fail.                               *)
ImportExtension(c) ==
  /\ At(c, "import")
  /\ \/ Return(c) /\ UNCHANGED extensions
     \/ /\ initialized
        /\ Len(extensions) < MaxExtensions
        /\ extensions' = Append(extensions,
             [own |-> call[c].kind \in Types => hub[call[c].kind] = call[c].config,
              shared |-> call[c].shared])
        /\ call' = [call EXCEPT ![c] = Step("clear", "none", NoConfig, FALSE, Len(extensions) + 1)]
  /\ UNCHANGED <<hub, resourceName, cached, specMu, initialized>>

(* Mutation: only the specification is cleared.                            *)
ClearSpec(c) ==
  /\ At(c, "clear")
  /\ specMu = NoConfig
  /\ cached' = [cached EXCEPT !["spec"] = Nothing]
  /\ call' = [call EXCEPT ![c].at = "assign"]
  /\ UNCHANGED <<extensions, hub, resourceName, specMu, initialized>>

ClearCaches(c) ==
  /\ At(c, "clear")
  /\ specMu = NoConfig
  /\ cached' = [k \in Caches |-> Nothing]
  /\ call' = [call EXCEPT ![c].at = "assign"]
  /\ UNCHANGED <<extensions, hub, resourceName, specMu, initialized>>

(* The name is set under no lock.                                          *)
SetResourceName(c) ==
  /\ At(c, "assign")
  /\ resourceName' = call[c].name
  /\ Return(c)
  /\ UNCHANGED <<extensions, hub, cached, specMu, initialized>>

-----------------------------------------------------------------------------
(* APISpec and OperationSchemas: what is cached is returned.               *)
Look(c, k) ==
  /\ At(c, "free")
  /\ specMu = NoConfig
  /\ ~cached[k].set
  /\ call' = [call EXCEPT ![c] = Step("lock", k, NoConfig, FALSE, 0)]
  /\ UNCHANGED <<extensions, hub, resourceName, cached, specMu, initialized>>

(* Looked at again with the lock; without an extension an empty map is     *)
(* cached.                                                                 *)
LookAgain(c) ==
  /\ At(c, "lock")
  /\ specMu = NoConfig
  /\ LET k == call[c].kind
     IN IF cached[k].set THEN Return(c) /\ UNCHANGED <<cached, specMu>>
        ELSE IF resourceName = 0
        THEN /\ cached' = [cached EXCEPT ![k] = Filled(0, FALSE, Creating)]
             /\ Return(c)
             /\ UNCHANGED specMu
        ELSE /\ specMu' = c
             /\ call' = [call EXCEPT ![c].at = "fetch"]
             /\ UNCHANGED cached
  /\ UNCHANGED <<extensions, hub, resourceName, initialized>>

(* The request is for the name of the moment.                              *)
GetExtensionSpec(c) ==
  /\ At(c, "fetch")
  /\ call' = [call EXCEPT ![c] = Step("store", call[c].kind, NoConfig, Creating, resourceName)]
  /\ UNCHANGED <<extensions, hub, resourceName, cached, specMu, initialized>>

(* A fetch that fails (the remote call, the storage, the format, a name    *)
(* read while it was written) is cached as an empty map.                   *)
StoreSpec(c) ==
  /\ At(c, "store")
  /\ \E failed \in BOOLEAN :
       /\ ~initialized => failed
       /\ cached' = [cached EXCEPT ![call[c].kind] =
                       Filled(IF failed THEN 0 ELSE call[c].name, failed, call[c].shared)]
  /\ specMu' = NoConfig
  /\ Return(c)
  /\ UNCHANGED <<extensions, hub, resourceName, initialized>>

(* A client that does not close leaves the service initialized.            *)
Close ==
  /\ initialized
  /\ initialized' = FALSE
  /\ UNCHANGED <<extensions, hub, resourceName, cached, specMu, call>>

Next ==
  \/ \E c \in Callers :
       \/ \E type \in Types, config \in {c, NoConfig} : CreateFromHub(c, type, config)
       \/ CheckConfig(c) \/ CreateExtension(c)
       \/ ImportExtension(c) \/ ClearCaches(c) \/ SetResourceName(c)
       \/ \E k \in Caches : Look(c, k)
       \/ LookAgain(c) \/ GetExtensionSpec(c) \/ StoreSpec(c)
  \/ Close

Spec == Init /\ [][Next]_vars
-----------------------------------------------------------------------------
Calls == [at : {"free", "check", "import", "clear", "assign", "lock", "fetch", "store"},
          kind : Types \cup Caches \cup {"none"}, config : Callers \cup {NoConfig},
          shared : BOOLEAN, name : 0 .. MaxExtensions]

TypeOK ==
  /\ extensions \in Seq([own : BOOLEAN, shared : BOOLEAN]) /\ Len(extensions) <= MaxExtensions
  /\ hub \in [Types -> Callers \cup {NoConfig}]
  /\ resourceName \in 0 .. MaxExtensions
  /\ cached \in [Caches -> [of : 0 .. MaxExtensions, failed : BOOLEAN, raced : BOOLEAN, set : BOOLEAN]]
  /\ specMu \in Callers \cup {NoConfig} /\ initialized \in BOOLEAN
  /\ call \in [Callers -> Calls]

(* service.go:248: what is cached belongs to the extension the service     *)
(* names, unless its fetch failed or fell between the clearing of the      *)
(* caches and the change of the name of a CreateExtension.                 *)
CachedSpecBelongs ==
  \A k \in Caches :
    cached[k].set => cached[k].of = resourceName \/ cached[k].failed \/ cached[k].raced

(* service.go:540: an extension has the configuration its creator asked    *)
(* for, and one the hub requires was there, unless two creations of one    *)
(* type were in progress together.                                         *)
ConfigsKeptApart ==
  \A i \in DOMAIN extensions : extensions[i].shared \/ extensions[i].own

(* Why the two hold.  The one who fetches holds specMu, and while a        *)
(* CreateExtension has cleared the caches and not set the name, what is    *)
(* cached was raced; a creator that shared the entry of the hub with       *)
(* nobody finds its configuration there.                                   *)
FetchesInOrder ==
  /\ \A c \in Callers :
       /\ call[c].at \in {"fetch", "store"} => specMu = c /\ call[c].kind \in Caches
       /\ call[c].at = "lock" => call[c].kind \in Caches
       /\ call[c].at = "store" /\ ~call[c].shared => ~Creating /\ call[c].name = resourceName
  /\ Creating => \A k \in Caches : cached[k].set => cached[k].failed \/ cached[k].raced

HubKept ==
  \A c \in Callers :
    /\ call[c].at \in {"check", "import"} /\ call[c].kind \in Types /\ ~call[c].shared =>
         hub[call[c].kind] = call[c].config
=============================================================================
