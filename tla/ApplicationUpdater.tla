------------------------- MODULE ApplicationUpdater -------------------------
(***************************************************************************)
(* The per-application configuration editor store of the first dashboard  *)
(* (src/dashboard/src/store/applicationUpdater.js).                        *)
(*                                                                         *)
(* The store keeps an editable draft of one application and a flag,       *)
(* isConfigurationUpdated, that enables the "apply" button.  It issues TWO *)
(* independent queries for the same application: applicationDetailsRaw,  *)
(* from which the draft is reset, and applicationExistingDetailsResult,   *)
(* against which the dirty-check and the update payload are computed.     *)
(* After a successful update only the first one is re-fetched.            *)
(*                                                                         *)
(* Data abstraction.  A configuration keeps one field per kind of check   *)
(* the code performs: a scalar flag (dockerProxyConfig.enabled), a scalar *)
(* value (resourceLimit.memoryMb), an order-insensitive list              *)
(* (preferredServerHostnames), three keyed lists (environment variables   *)
(* keyed by name, config mounts keyed by mounting path, persistent volume *)
(* bindings keyed by volume id) and the build-args object.  The other     *)
(* scalar fields are compared in the same way as the two kept here.  The  *)
(* uuid surrogate keys of the list rows are abstracted to positions: they *)
(* are fresh and unique, so deleting by key is deleting one position.    *)
(***************************************************************************)
EXTENDS Naturals, Sequences, SequencesExt

CONSTANTS
    Names,      \* environment variable names
    Vals,       \* environment variable and build-arg values
    Paths,      \* mounting paths
    Contents,   \* config mount contents (content, uid and gid together)
    Volumes,    \* persistent volume ids
    Hosts,      \* server hostnames; numbers, so that they can be sorted
    Mems,       \* memory limits
    ArgKeys,    \* build-arg keys
    CredIDs,    \* git and image-registry credential ids (numbers > 0)
    SourceCreds, \* credential ids the source editor hands over (0: none)
    NullID,     \* null: the application uses no credential
    NotANumber, \* NaN
    Blank,      \* the '' of a freshly added row
    NoVolume,   \* the -1 persistentVolumeID of a freshly added binding
    NotLoaded,  \* a query whose result has not arrived (value undefined)
    None,       \* no update mutation in flight
    Undefined,  \* the value of a missing key of a JavaScript object
    InitServer, \* configurations the backend may hold when the editor opens
    MaxEnv, MaxMounts, MaxPvs,  \* bounds on the length of each draft list
    MaxSaves    \* bound on the number of update mutations sent

ASSUME Blank \in Names \cap Vals \cap Paths
ASSUME Hosts \subseteq Nat /\ Mems \subseteq Nat /\ 0 \in Mems
ASSUME CredIDs \subseteq Nat \ {0} /\ SourceCreds \subseteq CredIDs \cup {0}

EnvVar      == [name: Names, value: Vals]
ConfigMount == [path: Paths, content: Contents]
PvBinding   == [volume: Volumes \cup {NoVolume}, path: Paths]
BuildArgs   == UNION {[K -> Vals] : K \in SUBSET ArgKeys}
HostLists   == UNION {SetToSeqs(H) : H \in SUBSET Hosts}
CredValues  == CredIDs \cup {0, NullID}

Config == [proxy: BOOLEAN, memory: Mems, hosts: HostLists,
           env: BoundedSeq(EnvVar, MaxEnv),
           mounts: BoundedSeq(ConfigMount, MaxMounts),
           pvs: BoundedSeq(PvBinding, MaxPvs),
           gitCred: CredValues, regCred: CredValues,
           buildArgs: BuildArgs]

(* What the backend stores (an assumption about the backend, after spec    *)
(* section 3: list entries are unique by their natural key).              *)
KeysUnique(s, K(_)) == \A i, j \in DOMAIN s : i # j => K(s[i]) # K(s[j])
WellFormed(c) ==
    /\ KeysUnique(c.env, LAMBDA e : e.name)
    /\ KeysUnique(c.mounts, LAMBDA m : m.path)
    /\ KeysUnique(c.pvs, LAMBDA b : b.volume)
    /\ \A i \in DOMAIN c.pvs : c.pvs[i].volume # NoVolume
    /\ {c.gitCred, c.regCred} \subseteq CredIDs \cup {NullID}

ASSUME InitServer \subseteq {c \in Config : WellFormed(c)}

VARIABLES
    server,                            \* configuration held by the backend
    applicationDetailsRaw,             \* result of the first query
    applicationExistingDetailsResult,  \* result of the second query
    draft,                             \* the reactive draft objects
    isConfigurationUpdated,            \* enables the apply button
    deployRequest,                     \* payload of the mutation in flight
    refetching,                        \* refetch of the first query issued
    applyOutcome,                      \* what the last apply did (history)
    sourceEdited,                      \* build args edited since last reset
    saves                              \* mutations sent so far (bound)

vars == <<server, applicationDetailsRaw, applicationExistingDetailsResult,
          draft, isConfigurationUpdated, deployRequest, refetching,
          applyOutcome, sourceEdited, saves>>

-----------------------------------------------------------------------------
(* The reactive objects environmentVariableDetails, ..., sourceConfigurationRef *)
(* with their initial values.                                             *)
InitialDraft ==
    [proxy |-> FALSE, memory |-> 0, hosts |-> <<>>, env |-> <<>>,
     mounts |-> <<>>, pvs |-> <<>>, gitCred |-> 0, regCred |-> 0,
     buildArgs |-> <<>>]

(* map[k] of an object built by reduce over a list: the last row with key *)
(* k wins; a key no row has reads as undefined.                            *)
KeyedLookup(s, K(_), V(_), k) ==
    LET i == SelectLastInSeq(s, LAMBDA e : K(e) = k)
    IN  IF i = 0 THEN Undefined ELSE V(s[i])

(* One list compared keyed by K: lengths first, then every existing key.  *)
KeyedListChanged(old, new, K(_), V(_)) ==
    \/ Len(old) # Len(new)
    \/ \E i \in DOMAIN old :
          KeyedLookup(old, K, V, K(old[i])) # KeyedLookup(new, K, V, K(old[i]))

Verdict(b) == IF b THEN "changed" ELSE "unchanged"

SortedHosts(s) == SetToSortSeq(ToSet(s), LAMBDA a, b : a < b)

proxyChanged(old, new)  == Verdict(old.proxy # new.proxy)
hostnamesChanged(old, new) ==
    Verdict(\/ Len(old.hosts) # Len(new.hosts)
            \/ SortedHosts(old.hosts) # SortedHosts(new.hosts))
memoryChanged(old, new) == Verdict(old.memory # new.memory)
(* Mutant: the environment-variable check without its length comparison. *)
envChangedWithoutLength(old, new) ==
    Verdict(\E i \in DOMAIN old.env :
               KeyedLookup(old.env, LAMBDA e : e.name, LAMBDA e : e.value, old.env[i].name)
                 # KeyedLookup(new.env, LAMBDA e : e.name, LAMBDA e : e.value, old.env[i].name))
envChanged(old, new) ==
    Verdict(KeyedListChanged(old.env, new.env,
                             LAMBDA e : e.name, LAMBDA e : e.value))
(* newConfigMountMap[key].content throws a TypeError when the draft has   *)
(* no mount at an existing path; the first differing existing path        *)
(* decides between a throw and "changed".                                 *)
configMountsChanged(old, new) ==
    LET missing(i) == SelectLastInSeq(new.mounts,
                         LAMBDA m : m.path = old.mounts[i].path) = 0
        differs(i) == missing(i) \/
                      KeyedLookup(old.mounts, LAMBDA m : m.path,
                                  LAMBDA m : m.content, old.mounts[i].path)
                        # KeyedLookup(new.mounts, LAMBDA m : m.path,
                                      LAMBDA m : m.content, old.mounts[i].path)
        bad == {i \in DOMAIN old.mounts : differs(i)}
    IN  IF Len(old.mounts) # Len(new.mounts) THEN "changed"
        ELSE IF bad = {} THEN "unchanged"
        ELSE IF missing(Min(bad)) THEN "threw" ELSE "changed"
pvBindingsChanged(old, new) ==
    Verdict(KeyedListChanged(old.pvs, new.pvs,
                             LAMBDA b : b.volume, LAMBDA b : b.path))
(* parseInt of a credential id: null reads as "null", which is NaN.      *)
ParseIntID(v) == IF v = NullID THEN NotANumber ELSE v

(* The git credential is compared after parseInt, and NaN !== anything.   *)
gitCredentialChanged(old, new) == Verdict(ParseIntID(new.gitCred) # old.gitCred)
(* The registry credential is compared as it is, with !==.               *)
registryCredentialChanged(old, new) == Verdict(new.regCred # old.regCred)
buildArgsChanged(old, new) ==
    Verdict(\/ Cardinality(DOMAIN old.buildArgs) # Cardinality(DOMAIN new.buildArgs)
            \/ \E k \in DOMAIN old.buildArgs :
                  old.buildArgs[k] # (IF k \in DOMAIN new.buildArgs
                                      THEN new.buildArgs[k] ELSE Undefined))

(* checkIfApplicationDetailsAreChanged: the checks in code order; the     *)
(* first one that does not say "unchanged" is the answer.  Before the     *)
(* second query has arrived the existing details are {} and the first     *)
(* check (deploymentMode) already differs.                                *)
checkIfApplicationDetailsAreChanged(old, new) ==
    IF old = NotLoaded THEN "changed"
    ELSE LET checks == <<proxyChanged(old, new), hostnamesChanged(old, new),
                         memoryChanged(old, new), envChanged(old, new),
                         configMountsChanged(old, new),
                         pvBindingsChanged(old, new),
                         gitCredentialChanged(old, new),
                         registryCredentialChanged(old, new),
                         buildArgsChanged(old, new)>>
             i == SelectInSeq(checks, LAMBDA v : v # "unchanged")
         IN  IF i = 0 THEN "unchanged" ELSE checks[i]

(* The hostname check sorts both arrays in place when it is reached.      *)
HostSortReached(old, new) ==
    /\ old # NotLoaded
    /\ old.proxy = new.proxy
    /\ Len(old.hosts) = Len(new.hosts)

(* Mutant: the hook wrapped in a try/catch that treats a throw as "no   *)
(* change".                                                               *)
triggerUpdateHookCatchAsUnchanged(d) ==
    LET v == checkIfApplicationDetailsAreChanged(applicationExistingDetailsResult, d)
    IN  /\ draft' = IF HostSortReached(applicationExistingDetailsResult, d)
                    THEN [d EXCEPT !.hosts = SortedHosts(d.hosts)] ELSE d
        /\ isConfigurationUpdated' = (v = "changed")

(* triggerUpdateHook after a handler has turned the draft into d: a throw *)
(* leaves isConfigurationUpdated as it was.                               *)
triggerUpdateHook(d) ==
    LET v == checkIfApplicationDetailsAreChanged(applicationExistingDetailsResult, d)
    IN  /\ draft' = IF HostSortReached(applicationExistingDetailsResult, d)
                    THEN [d EXCEPT !.hosts = SortedHosts(d.hosts)] ELSE d
        /\ isConfigurationUpdated' = IF v = "threw" THEN isConfigurationUpdated
                                     ELSE v = "changed"

(* resetDetailsToApplicationDetails: every field is copied from the first *)
(* query's result except sourceConfigurationRef.buildArgs, which it never *)
(* assigns.                                                               *)
resetDetailsToApplicationDetails(c) ==
    /\ draft' = [c EXCEPT !.buildArgs = draft.buildArgs]
    /\ isConfigurationUpdated' = FALSE
    /\ sourceEdited' = FALSE
-----------------------------------------------------------------------------
(* The two queries are issued when the store is created and answer with  *)
(* the configuration the backend holds when they are served.  The watch  *)
(* on applicationDetailsRaw resets the draft whenever its result changes. *)
Init ==
    /\ server \in InitServer
    /\ applicationDetailsRaw = NotLoaded
    /\ applicationExistingDetailsResult = NotLoaded
    /\ draft = InitialDraft
    /\ isConfigurationUpdated = FALSE
    /\ deployRequest = None
    /\ refetching = FALSE
    /\ applyOutcome = "none"
    /\ sourceEdited = FALSE
    /\ saves = 0

applicationDetailsArrives ==
    /\ applicationDetailsRaw = NotLoaded
    /\ applicationDetailsRaw' = server
    /\ resetDetailsToApplicationDetails(server)
    /\ UNCHANGED <<server, applicationExistingDetailsResult, deployRequest,
                   refetching, applyOutcome, saves>>

applicationExistingDetailsArrives ==
    /\ applicationExistingDetailsResult = NotLoaded
    /\ applicationExistingDetailsResult' = server
    /\ UNCHANGED <<server, applicationDetailsRaw, draft, isConfigurationUpdated,
                   deployRequest, refetching, applyOutcome, sourceEdited, saves>>

(* A handler of the editor turns the draft into d and calls the hook.     *)
(* The editor pages render once the first query has arrived.              *)
UserEdit(d) ==
    /\ applicationDetailsRaw # NotLoaded
    /\ triggerUpdateHook(d)
    /\ sourceEdited' = (sourceEdited \/ d.buildArgs # draft.buildArgs)
    /\ UNCHANGED <<server, applicationDetailsRaw, applicationExistingDetailsResult,
                   deployRequest, refetching, applyOutcome, saves>>

(* Mutant: the new row is created without its value field.               *)
addEnvironmentVariableWithoutValue ==
    /\ Len(draft.env) < MaxEnv
    /\ UserEdit([draft EXCEPT !.env = Append(@, [name |-> Blank])])

addEnvironmentVariable ==
    /\ Len(draft.env) < MaxEnv
    /\ UserEdit([draft EXCEPT !.env = Append(@, [name |-> Blank, value |-> Blank])])

deleteEnvironmentVariable(i) ==
    UserEdit([draft EXCEPT !.env = RemoveAt(@, i)])

onEnvironmentVariableNameChange(i, n) ==
    UserEdit([draft EXCEPT !.env[i].name = n])

onEnvironmentVariableValueChange(i, v) ==
    UserEdit([draft EXCEPT !.env[i].value = v])

addPersistentVolumeBinding ==
    /\ Len(draft.pvs) < MaxPvs
    /\ UserEdit([draft EXCEPT !.pvs = Append(@, [volume |-> NoVolume, path |-> Blank])])

deletePersistentVolumeBinding(i) ==
    UserEdit([draft EXCEPT !.pvs = RemoveAt(@, i)])

onPersistentVolumeChange(i, vol) ==
    UserEdit([draft EXCEPT !.pvs[i].volume = vol])

onPersistentVolumeMountingPathChange(i, p) ==
    UserEdit([draft EXCEPT !.pvs[i].path = p])

(* Mutant: the mounting-path uniqueness check is missing.                *)
addConfigMountWithoutPathCheck(m) ==
    /\ Len(draft.mounts) < MaxMounts
    /\ UserEdit([draft EXCEPT !.mounts = Append(@, m)])

(* A mounting path already in the draft throws before anything changes.   *)
addConfigMount(m) ==
    /\ Len(draft.mounts) < MaxMounts
    /\ \A i \in DOMAIN draft.mounts : draft.mounts[i].path # m.path
    /\ UserEdit([draft EXCEPT !.mounts = Append(@, m)])

(* Mutant: the row is removed but triggerUpdateHook is not called.        *)
deleteConfigMountWithoutHook(i) ==
    /\ applicationDetailsRaw # NotLoaded
    /\ draft' = [draft EXCEPT !.mounts = RemoveAt(@, i)]
    /\ UNCHANGED <<server, applicationDetailsRaw, applicationExistingDetailsResult,
                   isConfigurationUpdated, deployRequest, refetching, applyOutcome,
                   sourceEdited, saves>>

deleteConfigMount(i) ==
    UserEdit([draft EXCEPT !.mounts = RemoveAt(@, i)])

onConfigMountContentChange(i, c) ==
    UserEdit([draft EXCEPT !.mounts[i].content = c])

onMemoryLimitChanged(m) == UserEdit([draft EXCEPT !.memory = m])

enableDockerProxy  == UserEdit([draft EXCEPT !.proxy = TRUE])
disableDockerProxy == UserEdit([draft EXCEPT !.proxy = FALSE])

updatePreferredServerHostnames(hs) == UserEdit([draft EXCEPT !.hosts = hs])

(* The source editor hands over all source fields at once; of them the    *)
(* model keeps the credential ids and the build args.                     *)
updateApplicationSource(ba, git, reg) ==
    UserEdit([draft EXCEPT !.buildArgs = ba, !.gitCred = git, !.regCred = reg])

cancelConfigurationChanges ==
    /\ applicationDetailsRaw # NotLoaded
    /\ resetDetailsToApplicationDetails(applicationDetailsRaw)
    /\ UNCHANGED <<server, applicationDetailsRaw, applicationExistingDetailsResult,
                   deployRequest, refetching, applyOutcome, saves>>

(* mergeChangesWithExistingApplicationDetails: the payload takes every    *)
(* modelled field from the draft (name, upstreamType, capabilities,       *)
(* sysctls and applicationGroupID come from the existing details).  When  *)
(* the second query has not arrived the existing details are {}: the     *)
(* guard `{}.length === 0` is false, so no alert is shown, and reading    *)
(* latestDeployment.upstreamType of {} throws.                            *)
mergeChangesWithExistingApplicationDetails(existing, d) ==
    IF existing = NotLoaded THEN [threw |-> TRUE]
    ELSE [threw |-> FALSE, payload |-> d]

(* The credential ids as applyConfigurationChanges sends them: parseInt,  *)
(* then 0 becomes null; NaN is serialised as null.                         *)
SentID(v) == IF ParseIntID(v) \in {0, NotANumber} THEN NullID ELSE ParseIntID(v)
MutationInput(p) == [p EXCEPT !.gitCred = SentID(@), !.regCred = SentID(@)]

(* applyConfigurationChanges: the button is enabled by                   *)
(* isConfigurationUpdated and disabled while a request is submitting.    *)
applyConfigurationChanges ==
    /\ isConfigurationUpdated
    /\ deployRequest = None
    /\ saves < MaxSaves
    /\ LET merged == mergeChangesWithExistingApplicationDetails(
                         applicationExistingDetailsResult, draft)
       IN  IF merged.threw
           THEN /\ applyOutcome' = "threw"
                /\ UNCHANGED <<deployRequest, saves>>
           ELSE /\ deployRequest' = MutationInput(merged.payload)
                /\ applyOutcome' = "sent"
                /\ saves' = saves + 1
    /\ UNCHANGED <<server, applicationDetailsRaw, applicationExistingDetailsResult,
                   draft, isConfigurationUpdated, refetching, sourceEdited>>

(* onDeployApplicationMutationDone: the backend stored the payload; only  *)
(* the first query is re-fetched.                                         *)
deployApplicationDone ==
    /\ deployRequest # None
    /\ WellFormed(deployRequest)
    /\ server' = deployRequest
    /\ deployRequest' = None
    /\ refetching' = TRUE
    /\ UNCHANGED <<applicationDetailsRaw, applicationExistingDetailsResult, draft,
                   isConfigurationUpdated, applyOutcome, sourceEdited, saves>>

(* onDeployApplicationMutationError: an alert; the draft is left intact.  *)
(* The backend rejected the payload, or stored it and the reply was lost. *)
deployApplicationError ==
    /\ deployRequest # None
    /\ \/ server' = server
       \/ /\ WellFormed(deployRequest)
          /\ server' = deployRequest
    /\ deployRequest' = None
    /\ UNCHANGED <<applicationDetailsRaw, applicationExistingDetailsResult, draft,
                   isConfigurationUpdated, refetching, applyOutcome, sourceEdited, saves>>

(* The refetch answers: the watch resets the draft from the new result.   *)
(* A failed refetch leaves the result, and so the draft, as they were.    *)
refetchApplicationDetailsArrives ==
    /\ refetching
    /\ refetching' = FALSE
    /\ applicationDetailsRaw' = server
    /\ resetDetailsToApplicationDetails(server)
    /\ UNCHANGED <<server, applicationExistingDetailsResult, deployRequest,
                   applyOutcome, saves>>

refetchApplicationDetailsFails ==
    /\ refetching
    /\ refetching' = FALSE
    /\ UNCHANGED <<server, applicationDetailsRaw, applicationExistingDetailsResult,
                   draft, isConfigurationUpdated, deployRequest, applyOutcome,
                   sourceEdited, saves>>

Next ==
    \/ applicationDetailsArrives
    \/ applicationExistingDetailsArrives
    \/ addEnvironmentVariable
    \/ \E i \in DOMAIN draft.env :
          \/ deleteEnvironmentVariable(i)
          \/ \E n \in Names : onEnvironmentVariableNameChange(i, n)
          \/ \E v \in Vals : onEnvironmentVariableValueChange(i, v)
    \/ addPersistentVolumeBinding
    \/ \E i \in DOMAIN draft.pvs :
          \/ deletePersistentVolumeBinding(i)
          \/ \E vol \in Volumes : onPersistentVolumeChange(i, vol)
          \/ \E p \in Paths : onPersistentVolumeMountingPathChange(i, p)
    \/ \E m \in ConfigMount : addConfigMount(m)
    \/ \E i \in DOMAIN draft.mounts :
          \/ deleteConfigMount(i)
          \/ \E c \in Contents : onConfigMountContentChange(i, c)
    \/ \E m \in Mems : onMemoryLimitChanged(m)
    \/ enableDockerProxy
    \/ disableDockerProxy
    \/ \E hs \in HostLists : updatePreferredServerHostnames(hs)
    \/ \E ba \in BuildArgs, git, reg \in SourceCreds :
          updateApplicationSource(ba, git, reg)
    \/ cancelConfigurationChanges
    \/ applyConfigurationChanges
    \/ deployApplicationDone
    \/ deployApplicationError
    \/ refetchApplicationDetailsArrives
    \/ refetchApplicationDetailsFails

Spec == Init /\ [][Next]_vars

-----------------------------------------------------------------------------
TypeOK ==
    /\ server \in Config
    /\ applicationDetailsRaw \in Config \cup {NotLoaded}
    /\ applicationExistingDetailsResult \in Config \cup {NotLoaded}
    /\ draft \in Config
    /\ isConfigurationUpdated \in BOOLEAN
    /\ deployRequest \in Config \cup {None}
    /\ refetching \in BOOLEAN
    /\ applyOutcome \in {"none", "sent", "threw"}
    /\ sourceEdited \in BOOLEAN
    /\ saves \in 0..MaxSaves

(* Reference meaning of "the draft differs from configuration c": what    *)
(* would be stored differs, hostnames compared as a set and every list    *)
(* as a multiset of its rows.                                             *)
Differs(c, d) ==
    \/ c.proxy # d.proxy
    \/ c.memory # d.memory
    \/ ToSet(c.hosts) # ToSet(d.hosts)
    \/ ToBag(c.env) # ToBag(d.env)
    \/ ToBag(c.mounts) # ToBag(d.mounts)
    \/ ToBag(c.pvs) # ToBag(d.pvs)
    \/ c.gitCred # SentID(d.gitCred)
    \/ c.regCred # SentID(d.regCred)
    \/ c.buildArgs # d.buildArgs

(* The keyed, length-then-lookup dirty-check of every list, run on the    *)
(* drafts the handlers can build, says "changed" exactly when the draft   *)
(* differs as a multiset from the existing details, and throws only when  *)
(* it does differ: duplicate names, -1 volumes and reordered rows in the  *)
(* draft never fool it.                                                   *)
DirtyCheckMatchesReference ==
    applicationExistingDetailsResult # NotLoaded =>
        LET v == checkIfApplicationDetailsAreChanged(applicationExistingDetailsResult, draft)
            d == Differs(applicationExistingDetailsResult, draft)
        IN  /\ v # "threw" => (v = "changed") = d
            /\ v = "threw" => d

(* Once the editor shows a draft, and while the existing-details query    *)
(* still matches the backend, a disabled apply button means the draft     *)
(* holds nothing the backend lacks: the TypeError thrown by the           *)
(* config-mount check never leaves the flag FALSE over a changed draft.   *)
ApplyDisabledOnlyWhenInSyncWhileSnapshotCurrent ==
    (/\ applicationDetailsRaw # NotLoaded
     /\ applicationExistingDetailsResult = server
     /\ ~isConfigurationUpdated)
        => ~Differs(server, draft)

(* Whenever the query the draft is reset from shows what the backend      *)
(* holds and no request or refetch is outstanding, a disabled apply       *)
(* button means the draft equals what the backend holds.                  *)
ApplyDisabledOnlyWhenInSync ==
    (/\ applicationDetailsRaw = server
     /\ deployRequest = None
     /\ ~refetching
     /\ ~isConfigurationUpdated)
        => ~Differs(server, draft)

(* No update mutation carries two config mounts at one path (spec section *)
(* 8: a duplicate mounting path is rejected before any network call).     *)
NoDuplicateMountPathSent ==
    deployRequest # None => KeysUnique(deployRequest.mounts, LAMBDA m : m.path)

(* An update changes the stored build args only if the user edited them   *)
(* in the source editor since the draft was last reset.                   *)
BuildArgsChangedOnlyByUser ==
    [][server'.buildArgs # server.buildArgs => sourceEdited]_vars

(* Pressing apply either sends the update or tells the user why not       *)
(* (the alert at line 864).                                               *)
ApplyNeverFailsSilently == applyOutcome # "threw"
====
