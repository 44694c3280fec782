------------------------------ MODULE GitHook ------------------------------
(***************************************************************************)
(* Installing and removing the managed reference-transaction hook of one   *)
(* repository.  Each operator runs install_hook or uninstall_hook, which   *)
(* read and write two files without a lock and may be killed between any   *)
(* two of their steps, also in the middle of the copy; the repository's     *)
(* user writes hooks of his own whenever he likes.                         *)
(***************************************************************************)
EXTENDS Naturals

CONSTANTS
    Operators,
    UserHooks,              \* contents the user may write
    MaxWrites, MaxCrashes

(* A hook of the user is none of the texts the tool knows by itself.        *)
ASSUME HookAssumption == UserHooks \cap {"none", "managed", "empty"} = {}

VARIABLES
    hook,       \* .git/hooks/reference-transaction
    orig,       \* the same with ORIG_SUFFIX
    pc,
    text,       \* what install_hook read of the hook it chains
    latest,     \* history: the hook the user wrote last
    upset,      \* history: what happened to the tool's files since he wrote a hook into a
                \* repository free of them: "torn", a call died while it wrote the copy;
                \* "overlap", two calls ran at once; "user", he changed the hook meanwhile
    writes, crashes

hookVars == <<hook, orig, pc, text, latest, upset, writes, crashes>>

HookInit ==
    /\ hook = "none" /\ orig = "none"
    /\ pc = [o \in Operators |-> "idle"]
    /\ text = [o \in Operators |-> "none"]
    /\ latest = "none" /\ upset = {}
    /\ writes = 0 /\ crashes = 0

Goto(o, label) == pc' = [pc EXCEPT ![o] = label]

(* A call begins with its first look at the hook. *)
Begin(o, label) ==
    /\ pc[o] = "idle" /\ Goto(o, label)
    /\ upset' = IF \A p \in Operators : pc[p] = "idle" THEN upset ELSE upset \cup {"overlap"}

-----------------------------------------------------------------------------
(* install_hook *)

(* Mutant: an unmanaged hook is replaced without being chained. *)
InstallOverwrites(o) ==
    /\ Begin(o, "replace")
    /\ UNCHANGED <<hook, orig, text, latest, writes, crashes>>

InstallLooks(o) ==
    /\ Begin(o, IF hook \in {"none", "managed"} THEN "replace" ELSE "conflict")
    /\ UNCHANGED <<hook, orig, text, latest, writes, crashes>>

(* An unmanaged hook beside a saved original is refused. *)
ChecksOrig(o) ==
    /\ pc[o] = "conflict"
    /\ Goto(o, IF orig = "none" THEN "copy" ELSE "idle")
    /\ UNCHANGED <<hook, orig, text, latest, upset, writes, crashes>>

(* The hook is read again and the file of the copy opened; a hook that is   *)
(* gone ends the call.                                                      *)
OpensCopy(o) ==
    /\ pc[o] = "copy"
    /\ text' = [text EXCEPT ![o] = hook]
    /\ orig' = IF hook = "none" THEN orig ELSE "empty"
    /\ Goto(o, IF hook = "none" THEN "idle" ELSE "copying")
    /\ UNCHANGED <<hook, latest, upset, writes, crashes>>

WritesCopy(o) ==
    /\ pc[o] = "copying"
    /\ orig' = text[o] /\ text' = [text EXCEPT ![o] = "none"]
    /\ Goto(o, "replace")
    /\ UNCHANGED <<hook, latest, upset, writes, crashes>>

ReplacesHook(o) ==
    /\ pc[o] = "replace"
    /\ hook' = "managed"
    /\ Goto(o, "idle")
    /\ UNCHANGED <<orig, text, latest, upset, writes, crashes>>

-----------------------------------------------------------------------------
(* uninstall_hook *)

UninstallLooks(o) ==
    /\ Begin(o, IF hook = "managed" THEN "unlink" ELSE "restore")
    /\ UNCHANGED <<hook, orig, text, latest, writes, crashes>>

UnlinksHook(o) ==
    /\ pc[o] = "unlink"
    /\ hook' = "none"
    /\ Goto(o, IF hook = "none" THEN "idle" ELSE "restore")
    /\ UNCHANGED <<orig, text, latest, upset, writes, crashes>>

(* Mutant: the original is copied back and kept, and so goes stale. *)
RestoresCopy(o) ==
    /\ pc[o] = "restore"
    /\ hook' = IF orig = "none" THEN hook ELSE orig
    /\ Goto(o, "idle")
    /\ UNCHANGED <<orig, text, latest, upset, writes, crashes>>

(* The saved original moves over whatever hook there is. *)
RestoresOrig(o) ==
    /\ pc[o] = "restore"
    /\ hook' = IF orig = "none" THEN hook ELSE orig
    /\ orig' = "none"
    /\ Goto(o, "idle")
    /\ UNCHANGED <<text, latest, upset, writes, crashes>>

-----------------------------------------------------------------------------
Crash(o) ==
    /\ pc[o] # "idle" /\ crashes < MaxCrashes
    /\ crashes' = crashes + 1
    /\ Goto(o, "idle")
    /\ text' = [text EXCEPT ![o] = "none"]
    /\ upset' = IF pc[o] = "copying" THEN upset \cup {"torn"} ELSE upset
    /\ UNCHANGED <<hook, orig, latest, writes>>

(* Nothing of the tool is in the repository or under way. *)
Free == hook # "managed" /\ orig = "none" /\ \A o \in Operators : pc[o] = "idle"

(* The user writes or removes his hook. *)
UserWrites ==
    /\ writes < MaxWrites
    /\ writes' = writes + 1
    /\ hook' \in (UserHooks \cup {"none"}) \ {hook}
    /\ latest' = hook'
    /\ upset' = IF Free THEN {} ELSE upset \cup {"user"}
    /\ UNCHANGED <<orig, pc, text, crashes>>

-----------------------------------------------------------------------------
Step(o) ==
    \/ InstallLooks(o) \/ ChecksOrig(o) \/ OpensCopy(o) \/ WritesCopy(o) \/ ReplacesHook(o)
    \/ UninstallLooks(o) \/ UnlinksHook(o) \/ RestoresOrig(o)
    \/ Crash(o)

HookNext == UserWrites \/ \E o \in Operators : Step(o)

HookSpec == HookInit /\ [][HookNext]_hookVars

-----------------------------------------------------------------------------
HookSafe == latest # "none" => latest \in {hook, orig}

(* Calls that are refused, end early or are killed between any two of their *)
(* steps never lose the hook the user wrote last: it is in place or saved.  *)
(* It takes two calls at once, a kill in the middle of the copy or a write  *)
(* of his own beside the tool's files to lose one.                          *)
UserHookKept == upset = {} => HookSafe

(* But for those three, an uninstall that runs to its end leaves the        *)
(* repository as the user left it, also after calls that did not.           *)
UninstallRestores ==
    [][\A o \in Operators :
           upset = {} /\ pc[o] = "restore" /\ pc'[o] = "idle" /\ crashes' = crashes =>
               hook' = latest /\ orig' = "none"]_hookVars

-----------------------------------------------------------------------------
(* What the documentation says and the code does not do. *)

(* "Never overwrites a foreign hook: an existing unmanaged hook is          *)
(* chained": of a user who leaves the tool's files alone no hook is lost,   *)
(* however calls overlap and wherever they are killed.                      *)
ForeignHookKept == "user" \notin upset => HookSafe
=============================================================================
