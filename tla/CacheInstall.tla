---------------------------- MODULE CacheInstall ----------------------------
(***************************************************************************)
(* The files the library copies to the cache directory.                    *)
(*                                                                         *)
(* startVpn of VpnRemoteService calls checkOrMoveBinaries, on a device     *)
(* that has the application on external memory: the executable of OpenVPN  *)
(* first, then the assets.  The constructor of VpnConfig, on a             *)
(* connectThread in another process, copies the assets again and asks for  *)
(* no result.  Whether a file has to be copied is asked of the file alone; *)
(* both may copy one file at a time, either process may die in between,    *)
(* and Android may delete a file of the directory at any time.             *)
(***************************************************************************)
EXTENDS Integers, FiniteSets

CONSTANTS
  Assets,         \* the assets that are copied (CA and CLIENT_CERTIFICATE)
  Binary,         \* the executable
  Bundled,        \* does the application bring an executable for the device?
  MaxInterruptions, \* bound on the deaths of either process
  MaxEvictions      \* bound on the files Android deletes

ASSUME FilesAssumption ==
  /\ Bundled \in BOOLEAN
  /\ Binary \notin Assets /\ "none" \notin Assets \cup {Binary}
ASSUME CacheBounds == {MaxInterruptions, MaxEvictions} \subseteq Nat

VARIABLES
  file,           \* per file: what is in the cache directory
  opener,         \* per file: who opened it last, and emptied it
  executable,     \* the executable has its permission
  at,             \* per caller: where it is
  todo,           \* per caller: assetsToMove, what is left of it
  copying,        \* per caller: the file it is writing, or "none"
  result,         \* what the last checkOrMoveBinaries came to
  unopened,       \* history: an asset could not be opened
  interruptions,
  evictions

cacheCounts == <<interruptions, evictions>>
cacheVars ==
  <<file, opener, executable, at, todo, copying, result, unopened, cacheCounts>>

Callers == {"remote", "config"}
Files == Assets \cup {Binary}

(* A fresh installation, or one that was used before. *)
CacheInit ==
  /\ executable \in BOOLEAN
  /\ file = [f \in Files |-> IF executable THEN "complete" ELSE "none"]
  /\ opener = [f \in Files |-> IF executable THEN "remote" ELSE "nobody"]
  /\ at = [c \in Callers |-> "idle"]
  /\ todo = [c \in Callers |-> {}]
  /\ copying = [c \in Callers |-> "none"]
  /\ result = "none"
  /\ unopened = FALSE
  /\ interruptions = 0
  /\ evictions = 0

Goes(c, from, to) == at[c] = from /\ at' = [at EXCEPT ![c] = to]

-----------------------------------------------------------------------------
(* copyToFile. *)

(* new FileOutputStream: the file is there from now on, and empty. *)
Open(c, f) ==
  /\ copying[c] = "none"
  /\ copying' = [copying EXCEPT ![c] = f]
  /\ file' = [file EXCEPT ![f] = "partial"]
  /\ opener' = [opener EXCEPT ![f] = c]
  /\ UNCHANGED <<executable, result, unopened, cacheCounts>>

(* The copy is over, or an exception ends it.  The file is whole when all  *)
(* was written since it was last emptied; a file that was deleted in the   *)
(* meantime is written to no avail.                                        *)
Close(c, ok) ==
  LET f == copying[c] IN
  /\ f # "none"
  /\ copying' = [copying EXCEPT ![c] = "none"]
  /\ file' = [file EXCEPT ![f] = IF ok /\ opener[f] = c THEN "complete" ELSE @]
  /\ UNCHANGED <<opener, unopened, cacheCounts>>

-----------------------------------------------------------------------------
(* checkOrMoveBinaries, first half.  getBinaryName looks for the file and  *)
(* calls copyBinaryToCacheDir, which copies it and gives it its permission *)
(* ("copy", "permit"), and catches what goes wrong.  Then                  *)
(* copyBinaryToCacheDir is called with the name it returned ("again"), and *)
(* would copy once more ("recopy", "repermit"), with an error this time.   *)

CheckBinaries ==
  /\ Goes("remote", "idle", "binary")
  /\ UNCHANGED <<file, opener, executable, todo, copying, result, unopened,
                 cacheCounts>>

(* exists() && canExecute(). *)
Present == file[Binary] # "none" /\ executable

Answers(c, answer) == result' = IF c = "remote" THEN answer ELSE result

(* Nothing to copy, at the first call or the second.  With no executable   *)
(* for the device the name is empty, which names the cache directory, and  *)
(* that passes for executable in the second.                               *)
SkipBinary ==
  /\ \/ Present /\ Goes("remote", "binary", "again")
     \/ Present /\ Goes("remote", "again", "assets")
     \/ ~Bundled /\ Goes("remote", "binary", "assets")
  /\ UNCHANGED <<file, opener, executable, todo, copying, result, unopened,
                 cacheCounts>>

OpenBinary ==
  /\ ~Present /\ Bundled
  /\ Goes("remote", "binary", "copy") \/ Goes("remote", "again", "recopy")
  /\ Open("remote", Binary)
  /\ UNCHANGED <<todo>>

CopyBinary ==
  /\ Goes("remote", "copy", "permit") \/ Goes("remote", "recopy", "repermit")
  /\ Close("remote", TRUE)
  /\ UNCHANGED <<executable, todo, result>>

(* A mutant: the permission is given to a copy that has failed, too. *)
BinaryFailsPermitted ==
  /\ Goes("remote", "copy", "permit") \/ Goes("remote", "recopy", "repermit")
  /\ Close("remote", FALSE)
  /\ UNCHANGED <<executable, todo, result>>

(* Where something goes wrong in the first half: getBinaryName logs it and *)
(* returns the empty name, and the second call's exception, or its false,  *)
(* is the error of checkOrMoveBinaries.                                    *)
Fails(first, second) ==
  \/ Goes("remote", first, "assets") /\ UNCHANGED result
  \/ Goes("remote", second, "idle") /\ Answers("remote", "error")

(* The executable of the package, or the file, cannot be opened. *)
BinaryUnopened ==
  /\ ~Present /\ Bundled
  /\ Fails("binary", "again")
  /\ UNCHANGED <<file, opener, executable, todo, copying, unopened, cacheCounts>>

(* The copy fails. *)
BinaryFails ==
  /\ Fails("copy", "recopy")
  /\ Close("remote", FALSE)
  /\ UNCHANGED <<executable, todo>>

(* setExecutable, which may fail, and does when the file is gone. *)
Permit ==
  /\ file[Binary] # "none"
  /\ Goes("remote", "permit", "again") \/ Goes("remote", "repermit", "assets")
  /\ executable' = TRUE
  /\ UNCHANGED <<file, opener, todo, copying, result, unopened, cacheCounts>>

PermitFails ==
  /\ Fails("permit", "repermit")
  /\ UNCHANGED <<file, opener, executable, todo, copying, unopened, cacheCounts>>

-----------------------------------------------------------------------------
(* moveAssetsToCacheDir, of VpnConfig and of IOHelper.                     *)

(* The constructor of VpnConfig begins with the assets. *)
ConfigMoves ==
  /\ Goes("config", "idle", "assets")
  /\ UNCHANGED <<file, opener, executable, todo, copying, result, unopened,
                 cacheCounts>>

Missing == {f \in Assets : file[f] = "none"}

(* A mutant: there is always something to move. *)
NothingMissingNever(c) ==
  /\ Missing = {}
  /\ Goes(c, "assets", "move")
  /\ UNCHANGED <<file, opener, executable, todo, copying, result, unopened,
                 cacheCounts>>

NothingMissing(c) ==
  /\ Missing = {}
  /\ Goes(c, "assets", "idle")
  /\ Answers(c, "ok")
  /\ UNCHANGED <<file, opener, executable, todo, copying, unopened, cacheCounts>>

SomeMissing(c) ==
  /\ Missing # {}
  /\ Goes(c, "assets", "move")
  /\ todo' = [todo EXCEPT ![c] = Missing]
  /\ UNCHANGED <<file, opener, executable, copying, result, unopened,
                 cacheCounts>>

OpenAsset(c) ==
  /\ at[c] = "move"
  /\ \E f \in todo[c] :
       /\ Open(c, f)
       /\ todo' = [todo EXCEPT ![c] = @ \ {f}]
  /\ UNCHANGED <<at>>

(* The package has no such asset, or either file cannot be opened.         *)
SkipAsset(c) ==
  /\ at[c] = "move" /\ copying[c] = "none"
  /\ \E f \in todo[c] : todo' = [todo EXCEPT ![c] = @ \ {f}]
  /\ unopened' = TRUE
  /\ UNCHANGED <<file, opener, executable, at, copying, result, cacheCounts>>

(* The exception of a copy is logged, and the loop goes on. *)
CopyAsset(c) ==
  /\ at[c] = "move"
  /\ \E ok \in BOOLEAN : Close(c, ok)
  /\ UNCHANGED <<at, todo, executable, result>>

(* The last line returns false, whatever was copied. *)
MoveReturns(c) ==
  /\ todo[c] = {} /\ copying[c] = "none"
  /\ Goes(c, "move", "idle")
  /\ Answers(c, "error")
  /\ UNCHANGED <<file, opener, executable, todo, copying, unopened, cacheCounts>>

-----------------------------------------------------------------------------

(* The process of a caller dies. *)
Interrupt(c) ==
  /\ interruptions < MaxInterruptions
  /\ interruptions' = interruptions + 1
  /\ at' = [at EXCEPT ![c] = "idle"]
  /\ todo' = [todo EXCEPT ![c] = {}]
  /\ copying' = [copying EXCEPT ![c] = "none"]
  /\ Answers(c, "none")
  /\ UNCHANGED <<file, opener, executable, unopened, evictions>>

(* Android needs the space. *)
Evict(f) ==
  /\ file[f] # "none"
  /\ evictions < MaxEvictions
  /\ evictions' = evictions + 1
  /\ file' = [file EXCEPT ![f] = "none"]
  /\ opener' = [opener EXCEPT ![f] = "nobody"]
  /\ executable' = IF f = Binary THEN FALSE ELSE executable
  /\ UNCHANGED <<at, todo, copying, result, unopened, interruptions>>

BinaryStep ==
  \/ SkipBinary \/ OpenBinary \/ CopyBinary \/ Permit
  \/ BinaryUnopened \/ BinaryFails \/ PermitFails

AssetStep(c) ==
  \/ NothingMissing(c) \/ SomeMissing(c)
  \/ OpenAsset(c) \/ SkipAsset(c) \/ CopyAsset(c) \/ MoveReturns(c)

CacheNext ==
  \/ CheckBinaries \/ BinaryStep
  \/ ConfigMoves
  \/ \E c \in Callers : AssetStep(c) \/ Interrupt(c)
  \/ \E f \in Files : Evict(f)

CacheSpec == CacheInit /\ [][CacheNext]_cacheVars

-----------------------------------------------------------------------------

Places ==
  {"idle", "binary", "copy", "permit", "again", "recopy", "repermit", "assets", "move"}

(* Every variable has its type; who writes a file is in a loop that        *)
(* copies, and a file is there when somebody has opened it.                *)
CacheTypeOK ==
  /\ file \in [Files -> {"none", "partial", "complete"}]
  /\ opener \in [Files -> Callers \cup {"nobody"}]
  /\ executable \in BOOLEAN
  /\ at \in [Callers -> Places]
  /\ todo \in [Callers -> SUBSET Assets]
  /\ copying \in [Callers -> Files \cup {"none"}]
  /\ result \in {"none", "ok", "error"}
  /\ unopened \in BOOLEAN
  /\ interruptions \in 0..MaxInterruptions
  /\ evictions \in 0..MaxEvictions
  /\ \A c \in Callers : copying[c] # "none" => at[c] \in {"copy", "recopy", "move"}
  /\ \A f \in Files : opener[f] = "nobody" <=> file[f] = "none"

(* The executable that passes the test of getBinaryName (VpnHelper 41) is  *)
(* whole: neither a copy that failed nor one that a death cut off is taken *)
(* for it by a later call, nor one that is deleted while it is copied.     *)
ExecutableIsWhole == executable => file[Binary] = "complete"
=============================================================================
