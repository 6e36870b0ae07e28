----------------------------- MODULE WasmLoader -----------------------------
(***************************************************************************)
(* createHyleClient: loading the WebAssembly module once for all callers   *)
(* of load, and handing it to the methods of the client.  A step leads     *)
(* from one point at which the event loop takes over to the next; the      *)
(* loader and default() of the module are the program's.                   *)
(***************************************************************************)

CONSTANT
  Caller        \* the parts of a program that share a client

VARIABLES
  loadPromise,  \* "null" | "pending" | "resolved" | "rejected"
  loader,       \* how far the function behind the promise is
  initialised,  \* default() of the module has done its work
  wasm,         \* the client has a module to call
  caller,       \* per caller: "out" | "waiting" | "ready" | "failed"
  heard         \* history: the answers load() has given by its promise

loaderVars == <<loadPromise, loader, initialised, wasm, caller, heard>>

LoaderTypeOK ==
  /\ loadPromise \in {"null", "pending", "resolved", "rejected"}
  /\ loader \in {"none", "fetching", "initialising", "initialised", "assigned", "over"}
  /\ initialised \in BOOLEAN /\ wasm \in BOOLEAN
  /\ caller \in [Caller -> {"out", "waiting", "ready", "failed"}]
  /\ heard \subseteq {"ready", "failed"}

LoaderInit ==
  /\ loadPromise = "null" /\ loader = "none"
  /\ initialised = FALSE /\ wasm = FALSE
  /\ caller = [c \in Caller |-> "out"]
  /\ heard = {}

-----------------------------------------------------------------------------
(* Mutant: the loader is started by every call.                            *)
StartEachTime == loadPromise' = "pending" /\ loader' = "fetching"

(* load(): the first call starts the loader and keeps the promise.         *)
Start ==
  IF loadPromise = "null"
  THEN loadPromise' = "pending" /\ loader' = "fetching"
  ELSE UNCHANGED <<loadPromise, loader>>

Load(c) ==
  /\ caller[c] # "waiting"
  /\ Start
  /\ caller' = [caller EXCEPT ![c] = "waiting"]
  /\ UNCHANGED <<initialised, wasm, heard>>

(* A loader that throws before it gives a promise leaves none behind: only *)
(* this call fails.                                                        *)
LoadThrows(c) ==
  /\ caller[c] # "waiting"
  /\ loadPromise = "null"
  /\ caller' = [caller EXCEPT ![c] = "failed"]
  /\ UNCHANGED <<loadPromise, loader, initialised, wasm, heard>>

(* Mutant: the module is kept before it is initialised.                    *)
ModuleArrivesKept ==
  /\ loader = "fetching"
  /\ loader' = "initialising" /\ wasm' = TRUE
  /\ UNCHANGED <<loadPromise, initialised, caller, heard>>

(* The module is there, and default() is called.                           *)
ModuleArrives ==
  /\ loader = "fetching"
  /\ loader' = "initialising"
  /\ UNCHANGED <<loadPromise, initialised, wasm, caller, heard>>

ModuleInitialised ==
  /\ loader = "initialising"
  /\ loader' = "initialised" /\ initialised' = TRUE
  /\ UNCHANGED <<loadPromise, wasm, caller, heard>>

(* wasm = module, and then the promise of load() resolves.                 *)
AssignWasm ==
  /\ loader = "initialised"
  /\ loader' = "assigned" /\ wasm' = TRUE
  /\ UNCHANGED <<loadPromise, initialised, caller, heard>>

Resolve ==
  /\ loader = "assigned"
  /\ loader' = "over" /\ loadPromise' = "resolved"
  /\ UNCHANGED <<initialised, wasm, caller, heard>>

(* Mutant: nobody is told of a failure.                                    *)
RejectUnseen ==
  /\ loader \in {"fetching", "initialising"}
  /\ loader' = "over"
  /\ UNCHANGED <<loadPromise, initialised, wasm, caller, heard>>

(* The loader's promise or the one of default() is rejected.               *)
Reject ==
  /\ loader \in {"fetching", "initialising"}
  /\ loader' = "over" /\ loadPromise' = "rejected"
  /\ UNCHANGED <<initialised, wasm, caller, heard>>

(* A caller goes on after "await client.load()".                           *)
Resume(c) ==
  /\ caller[c] = "waiting"
  /\ loadPromise \in {"resolved", "rejected"}
  /\ LET answer == IF loadPromise = "resolved" THEN "ready" ELSE "failed"
     IN caller' = [caller EXCEPT ![c] = answer] /\ heard' = heard \cup {answer}
  /\ UNCHANGED <<loadPromise, loader, initialised, wasm>>

Settle == ModuleArrives \/ ModuleInitialised \/ AssignWasm \/ Resolve \/ Reject

LoaderNext ==
  \/ Settle
  \/ \E c \in Caller : Load(c) \/ LoadThrows(c) \/ Resume(c)

LoaderSpec == LoaderInit /\ [][LoaderNext]_loaderVars

(* getWasm(): "hyle WASM is not ready" is thrown while there is no module. *)
IsReady == wasm

-----------------------------------------------------------------------------
(* A method that gets past getWasm() runs on a module that default() has   *)
(* initialised, whoever loaded it and whether or not this caller awaited   *)
(* anything; and a caller whose load() resolved is never told that the     *)
(* module is not ready.                                                    *)
ReadyMeansUsable ==
  /\ IsReady => initialised
  /\ \A c \in Caller : caller[c] = "ready" => IsReady

(* load() gives every caller the same answer, however its calls and the    *)
(* steps of the loader interleave: nobody goes on with a module that       *)
(* another one was told cannot be had, and a load that failed is final.    *)
EveryCallerHearsTheSame == heard # {"ready", "failed"}

(* Whoever awaits load() goes on, with the module or with an error.        *)
EveryLoadSettles ==
  \A c \in Caller : caller[c] = "waiting" ~> caller[c] # "waiting"
=============================================================================
