------------------------------ MODULE Deployments ------------------------------
(***************************************************************************)
(* ntt push, run again and again by the holder of one key over the chains  *)
(* of one deployment file: fetch all configurations, register missing      *)
(* peers, fetch again, and send on every chain the transactions for what   *)
(* differs.  Every transaction and every fetch is a step of its own, and   *)
(* the command can end between any two of them, by an exception, by        *)
(* process.exit or by being killed.                                        *)
(*                                                                         *)
(* The file stays as it is, so a setting of a chain is only right, with    *)
(* the value the file has, or not.  Nobody else changes a setting or       *)
(* registers anything meanwhile; the new owner of a Solana manager may     *)
(* claim it at any time.  Owners that are contracts are not modelled.      *)
(***************************************************************************)
EXTENDS Integers

CONSTANTS
    Chains,
    NoChain,    \* stands for no chain
    Solana,     \* the chains of them that are Solana, the others are EVM
    Settings    \* what the file says of every chain except its owner

ASSUME DeploymentsAssumption ==
    /\ NoChain \notin Chains
    /\ Solana \subseteq Chains
    /\ "owner" \notin Settings
    /\ {"version", "inbound"} \subseteq Settings

VARIABLES
    newOwner,   \* the chains whose file names another owner than the holder's key
    right,      \* chain -> settings that have the file's value
    registered, \* chain -> what is registered there
    owner,      \* chain -> "signer", "proposed" to the new owner, or "other"
    phase,      \* "idle", or what push is doing
    skip,       \* chains it was told to leave alone
    oneStep,    \* --dangerously-transfer-ownership-in-one-step
    todo,       \* chains it has not processed in this phase
    failed,     \* chains it could not fetch
    read,       \* chain -> keys that were as in the file when it was fetched
    current,    \* the chain it sends transactions to, or NoChain
    txs,        \* the transactions left for that chain
    errors      \* pushErrors is not empty

chainVars == <<newOwner, right, registered, owner>>
optionVars == <<skip, oneStep>>
runVars == <<phase, todo, failed, read, current, txs, errors>>
vars == <<chainVars, optionVars, runVars>>

Keys == Settings \cup {"owner"}

(* The inbound limits of a Solana chain are accounts that only setPeer creates. *)
LimitsExist(c, there) ==
    c \in Solana => {"managerPeer"} \X (Chains \ {c}) \subseteq there

(* MissingImplicitConfig: one transaction each, in the order push sends them. *)
Kinds == {"managerPeer", "transceiverPeer", "solanaWormholeTransceiver"}
Rank == [k \in Kinds |->
    CASE k = "managerPeer" -> 1 [] k = "transceiverPeer" -> 2 [] OTHER -> 3]
PeersOf(chains) == {"managerPeer", "transceiverPeer"} \X chains
Wanted(c, deps) ==
    PeersOf(deps \ {c})
      \cup (IF c \in Solana THEN {<<"solanaWormholeTransceiver", c>>} ELSE {})

Phases == {"idle", "fetch", "owners", "register", "refetch", "push"}

TypeOK ==
    /\ newOwner \subseteq Chains
    /\ right \in [Chains -> SUBSET Settings]
    /\ registered \in [Chains -> SUBSET (Kinds \X Chains)]
    /\ owner \in [Chains -> {"signer", "proposed", "other"}]
    /\ phase \in Phases
    /\ skip \subseteq Chains
    /\ oneStep \in BOOLEAN
    /\ todo \subseteq Chains
    /\ failed \subseteq Chains
    /\ read \in [Chains -> SUBSET Keys]
    /\ current \in Chains \cup {NoChain}
    /\ txs \subseteq IF phase = "register" THEN Kinds \X Chains ELSE Keys
    /\ errors \in BOOLEAN

Init ==
    /\ newOwner \in SUBSET Chains
    /\ right \in [Chains -> SUBSET Settings]
    /\ registered \in [Chains -> {{}, Kinds \X Chains}]
    /\ \A c \in Chains : "inbound" \in right[c] => LimitsExist(c, registered[c])
    /\ owner = [c \in Chains |-> "signer"]
    /\ phase = "idle"
    /\ skip = {}
    /\ oneStep = FALSE
    /\ todo = {}
    /\ failed = {}
    /\ read = [c \in Chains |-> {}]
    /\ current = NoChain
    /\ txs = {}
    /\ errors = FALSE

--------------------------------------------------------------------------------
\* Plausible slips in the code, each refuted by a property below.

OwnerLast_AnyOrder(key) == TRUE
Refused_NotRecorded == errors
ReadBack_MissingIsEqual(c, unread) ==
    right[c] \cup unread \cup {k \in {"owner"} : c \notin newOwner \/ owner[c] = "other"}

\* The chains.

(* What a fetch reads as equal to the file.  A proposed owner is not one yet. *)
ReadBack(c, unread) ==
    (right[c] \ unread) \cup {k \in {"owner"} : c \notin newOwner \/ owner[c] = "other"}

HandedOver == {c \in Chains : owner[c] = "other"}

(* claim_ownership by the proposed owner, or by the present one to take it back. *)
Claim(c) ==
    /\ owner[c] = "proposed"
    /\ \E o \in {"signer", "other"} : owner' = [owner EXCEPT ![c] = o]
    /\ UNCHANGED <<newOwner, right, registered, optionVars, runVars>>

--------------------------------------------------------------------------------
\* The command.

Start(skipped) ==
    /\ phase = "idle"
    /\ phase' = "fetch"
    /\ skip' = skipped
    /\ oneStep' \in BOOLEAN
    /\ todo' = Chains
    /\ UNCHANGED <<chainVars, failed, read, current, txs, errors>>

(* What the process knew is gone. *)
Reset ==
    /\ phase' = "idle"
    /\ skip' = {}
    /\ oneStep' = FALSE
    /\ todo' = {}
    /\ failed' = {}
    /\ read' = [c \in Chains |-> {}]
    /\ current' = NoChain
    /\ txs' = {}
    /\ errors' = FALSE

VersionFirst(key) == "version" \in txs => key = "version"

CanTransact == owner[current] # "other"
CanHandOver == CanTransact /\ (current \in Solana /\ oneStep => owner[current] = "signer")

CanSend(key) == key = "inbound" => LimitsExist(current, registered[current])

(* What push itself does not get past, or does not in the file's order of the keys. *)
Stuck ==
    \/ phase \in {"fetch", "refetch"} /\ todo = {} /\ ~(failed \subseteq skip)
    \/ phase = "register" /\ todo = {} /\ current = NoChain /\ errors
    \/ phase \in {"register", "push"} /\ txs # {} /\ ~CanTransact
    \/ phase = "push" /\ \E key \in txs : VersionFirst(key) /\ ~CanSend(key)
    \/ phase = "push" /\ txs = {"owner"} /\ ~CanHandOver

Done == phase = "push" /\ todo = {} /\ current = NoChain

(* process.exit(1), or a transaction the chain refuses. *)
Abort ==
    /\ Stuck
    /\ Reset
    /\ UNCHANGED chainVars

(* The process ends, or something fails that it does not catch. *)
Crash ==
    /\ phase # "idle"
    /\ ~Stuck /\ ~Done
    /\ Reset
    /\ UNCHANGED chainVars

(* The lanes of the pool fetch the chains in any order.  A failed read of the inbound
   limits is only logged: it leaves the limits out of what was read. *)
FetchOk(c) ==
    /\ phase \in {"fetch", "refetch"}
    /\ c \in todo
    /\ todo' = todo \ {c}
    /\ \E unread \in SUBSET {"inbound"} :
         read' = [read EXCEPT ![c] = IF phase = "fetch" THEN {} ELSE ReadBack(c, unread)]
    /\ UNCHANGED <<chainVars, optionVars, phase, failed, current, txs, errors>>

FetchFails(c) ==
    /\ phase \in {"fetch", "refetch"}
    /\ c \in todo
    /\ todo' = todo \ {c}
    /\ failed' = failed \cup {c}
    /\ UNCHANGED <<chainVars, optionVars, phase, read, current, txs, errors>>

(* collectMissingConfigs and the checks after it; without this step push aborts. *)
Fetched ==
    /\ phase = "fetch"
    /\ todo = {}
    /\ failed \subseteq skip
    /\ phase' = "owners"
    /\ UNCHANGED <<chainVars, optionVars, todo, failed, read, current, txs, errors>>

(* A wrong key for an EVM chain is remembered, and the other chains are looked at. *)
CheckOwners ==
    /\ phase = "owners"
    /\ errors' = (HandedOver \cap (Chains \ (failed \cup skip \cup Solana)) # {})
    /\ phase' = "register"
    /\ todo' = {c \in Chains \ (failed \cup skip) :
                  ~(Wanted(c, Chains \ failed) \subseteq registered[c])}
    /\ UNCHANGED <<chainVars, optionVars, failed, read, current, txs>>

(* The next chain of the loop.  What it misses has not changed since it was collected. *)
BeginChain(c) ==
    /\ phase \in {"register", "push"}
    /\ current = NoChain
    /\ c \in todo
    /\ current' = c
    /\ todo' = todo \ {c}
    /\ txs' = IF phase = "register"
              THEN Wanted(c, Chains \ failed) \ registered[c]
              ELSE Keys \ read[c]
    /\ UNCHANGED <<chainVars, optionVars, phase, failed, read, errors>>

(* setPeer brings the file's limit for that chain with it.  Among several chains it may
   be the last limit that was missing, or not: the model does not tell them apart. *)
LimitsAfter(i) ==
    IF i[1] # "managerPeer" THEN {{}}
    ELSE {limits \in SUBSET {"inbound"} :
            /\ Chains = {current, i[2]} => limits # {}
            /\ limits # {} => LimitsExist(current, registered[current] \cup {i})}

Register(i) ==
    /\ phase = "register"
    /\ i \in txs
    /\ \A j \in txs : Rank[i[1]] <= Rank[j[1]]
    /\ CanTransact
    /\ registered' = [registered EXCEPT ![current] = @ \cup {i}]
    /\ \E limits \in LimitsAfter(i) : right' = [right EXCEPT ![current] = @ \cup limits]
    /\ txs' = {j \in txs : j # i}
    /\ UNCHANGED <<newOwner, owner, optionVars, phase, todo, failed, read, current, errors>>

Refused == TRUE

(* A failure to register the Solana transceiver is caught and remembered. *)
RegisterFails(i) ==
    /\ phase = "register"
    /\ txs = {i}
    /\ i[1] = "solanaWormholeTransceiver"
    /\ errors' = Refused
    /\ txs' = {}
    /\ UNCHANGED <<chainVars, optionVars, phase, todo, failed, read, current>>

EndChain ==
    /\ current # NoChain
    /\ txs = {}
    /\ current' = NoChain
    /\ UNCHANGED <<chainVars, optionVars, phase, todo, failed, read, txs, errors>>

Registered ==
    /\ phase = "register"
    /\ todo = {} /\ current = NoChain
    /\ ~errors
    /\ phase' = "refetch"
    /\ todo' = Chains
    /\ failed' = {}
    /\ UNCHANGED <<chainVars, optionVars, read, current, txs, errors>>

Refetched ==
    /\ phase = "refetch"
    /\ todo = {}
    /\ failed \subseteq skip
    /\ phase' = "push"
    /\ todo' = Chains \ (failed \cup skip)
    /\ UNCHANGED <<chainVars, optionVars, failed, read, current, txs, errors>>

OwnerLast(key) == key = "owner" => txs = {"owner"}

PushSetting(key) ==
    /\ phase = "push"
    /\ key \in txs \cap Settings
    /\ VersionFirst(key)
    /\ CanTransact
    /\ CanSend(key)
    /\ right' = [right EXCEPT ![current] = @ \cup {key}]
    /\ txs' = txs \ {key}
    /\ UNCHANGED <<newOwner, registered, owner, optionVars, phase, todo, failed, read,
                   current, errors>>

(* On Solana the owner is proposed, or with the flag handed over at once, which fails
   when a proposal has left the upgrade authority with the lock. *)
PushOwner ==
    /\ phase = "push"
    /\ "owner" \in txs
    /\ OwnerLast("owner")
    /\ CanHandOver
    /\ owner' = [owner EXCEPT ![current] =
                   IF current \in Solana /\ ~oneStep THEN "proposed" ELSE "other"]
    /\ txs' = txs \ {"owner"}
    /\ UNCHANGED <<newOwner, right, registered, optionVars, phase, todo, failed, read,
                   current, errors>>

Pushed ==
    /\ Done
    /\ Reset
    /\ UNCHANGED chainVars

Push ==
    \/ \E c \in Chains : FetchOk(c) \/ BeginChain(c)
    \/ Abort \/ Fetched \/ CheckOwners \/ EndChain \/ Registered \/ Refetched \/ PushOwner \/ Pushed
    \/ \E i \in Kinds \X Chains : Register(i)
    \/ \E key \in Settings : PushSetting(key)

Next ==
    \/ \E s \in SUBSET Chains : Start(s)
    \/ Push
    \/ Crash
    \/ \E c \in Chains : FetchFails(c) \/ Claim(c)
    \/ \E i \in Kinds \X Chains : RegisterFails(i)

Spec == Init /\ [][Next]_vars

(* The command goes on while it can, and the user starts it again. *)
Fairness == WF_vars(Push) /\ WF_vars(\E s \in SUBSET Chains : Start(s))

FairSpec == Spec /\ Fairness

--------------------------------------------------------------------------------

(* Whatever the order of the differences and wherever an earlier run ended, nobody
   else is owner of a chain, or proposed as one, before everything the file says of
   that chain is done: what is left could not be pushed any more.
   (config-mgmt.ts:78 "we perform this last to make sure we don't accidentally lock
   ourselves out") *)
HandedOverConfigured ==
    \A c \in Chains : owner[c] # "signer" => right[c] = Settings

(* No chain is configured before all chains that take part know each other, whichever
   of them could not be fetched or refused a registration: a chain handed over without
   its peers could not be given them any more.  (push.ts:83-97, 255-262) *)
PeeredBeforePush ==
    phase = "push" =>
        \A c \in Chains \ skip : Wanted(c, Chains \ skip) \subseteq registered[c]

(* A user who leaves alone the chains that were handed over, and only those. *)
Careful ==
    IF phase = "push" THEN skip \subseteq HandedOver
    ELSE phase # "idle" => skip = HandedOver

Converged ==
    \A c \in Chains :
        /\ right[c] = Settings
        /\ owner[c] = "signer" <=> c \notin newOwner

Failure ==
    \/ Crash
    \/ \E c \in Chains : FetchFails(c)
    \/ \E i \in Kinds \X Chains : RegisterFails(i)

TakenBack == \E c \in Chains : owner[c] = "proposed" /\ owner'[c] = "signer"

(* Wherever the runs before ended, pushing again gets every chain to what the file
   says, once nothing fails and the user leaves out what was handed over: with such an
   EVM chain among the others push always aborts (push.ts:133-140, 255-262).  A proposal
   must be waited for, and not be followed by the one-step flag. *)
PushConverges ==
    (/\ <>[]Careful
     /\ <>[](~oneStep)
     /\ <>[][~Failure /\ ~TakenBack]_vars)
        => <>Converged

================================================================================
