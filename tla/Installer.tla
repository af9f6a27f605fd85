------------------------------ MODULE Installer ------------------------------
(***************************************************************************)
(* pona-installer (cmd/pona-installer), the init container that puts the   *)
(* CNI plugin into the directory kubelet runs plugins from: it writes a    *)
(* temporary file next to the old plugin and renames it.  A step is one    *)
(* system call.  Any of them may fail, the process may be killed between   *)
(* two of them, and the node may lose power.                               *)
(*                                                                         *)
(* The file system is external.  Rename replaces the file of a name at     *)
(* once; what a power loss leaves of a file that was not synchronised is   *)
(* any part of it, and the renaming itself may be lost.                    *)
(***************************************************************************)
CONSTANTS
    Version,    \* versions of the plugin in the images of the DaemonSet
    NoFile      \* there is no such file

VARIABLES
    image,      \* the version in the image that runs
    step,       \* the step of installPona; how it returned: "done" or "failed"
    temp,       \* the file CreateTemp made
    plugin,     \* the file with the name "pona"
    ondisk      \* what a power loss may leave under that name

insVars == <<image, step, temp, plugin, ondisk>>

\* whole: all data is written; exec: mode 0755; synced: Sync has returned.
File == [version : Version, whole : BOOLEAN, exec : BOOLEAN, synced : BOOLEAN]

InsTypeOK ==
    /\ image \in Version
    /\ step \in {"create", "copy", "chmod", "sync", "rename", "done", "failed"}
    /\ temp \in File \cup {NoFile} /\ plugin \in File \cup {NoFile}
    /\ ondisk \subseteq File \cup {NoFile}

InsInit ==
    /\ image \in Version
    /\ step = "create" /\ temp = NoFile /\ plugin = NoFile /\ ondisk = {NoFile}

-----------------------------------------------------------------------------
Writes(now, next, file) ==
    /\ step = now /\ step' = next
    /\ temp' = file
    /\ UNCHANGED <<image, plugin, ondisk>>

\* Open, MkdirAll and CreateTemp.
CreateTemp ==
    Writes("create", "copy",
           [version |-> image, whole |-> FALSE, exec |-> FALSE, synced |-> FALSE])

Copy == Writes("copy", "chmod", [temp EXCEPT !.whole = TRUE])

Chmod == Writes("chmod", "sync", [temp EXCEPT !.exec = TRUE])

\* Mutant of Sync: the file is not synchronised.
SyncSkipped == Writes("sync", "rename", temp)

Sync == Writes("sync", "rename", [temp EXCEPT !.synced = TRUE])

\* The deferred Remove finds nothing under the temporary name.
Rename ==
    /\ step = "rename" /\ step' = "done"
    /\ plugin' = temp /\ ondisk' = ondisk \cup {temp}
    /\ temp' = NoFile
    /\ UNCHANGED image

InstallPona == CreateTemp \/ Copy \/ Chmod \/ Sync \/ Rename

\* main has returned.  It logs an error and returns in the same way, so that
\* the init container has succeeded and ponad is started.
Returned == step \in {"done", "failed"}

\* A call fails: the deferred function removes the temporary file.
InstallFails ==
    /\ ~Returned /\ step' = "failed"
    /\ temp' = NoFile
    /\ UNCHANGED <<image, plugin, ondisk>>

-----------------------------------------------------------------------------
\* The container is killed and started again.  Its temporary file stays in the
\* directory, under a name nobody uses again.
InstallKilled ==
    /\ ~Returned /\ step' = "create"
    /\ temp' = NoFile
    /\ UNCHANGED <<image, plugin, ondisk>>

\* The pod of the DaemonSet is replaced, maybe by one with another image.
Deploy ==
    /\ Returned /\ step' = "create"
    /\ image' \in Version
    /\ UNCHANGED <<temp, plugin, ondisk>>

\* g may be found after a power loss where f was: the same, unless f was not
\* synchronised.
Survives(f, g) == g = f \/ (f # NoFile /\ ~f.synced /\ g.version = f.version)

\* Afterwards the pod gets a new sandbox, so its init container runs again.
PowerLoss ==
    /\ \E f \in ondisk : \E g \in File \cup {f} :
          Survives(f, g) /\ plugin' = g /\ ondisk' = {g}
    /\ step' = "create" /\ temp' = NoFile
    /\ UNCHANGED image

InsNext == InstallPona \/ InstallFails \/ InstallKilled \/ Deploy \/ PowerLoss

InsSpec == InsInit /\ [][InsNext]_insVars
-----------------------------------------------------------------------------
\* What kubelet finds under the plugin's name is a complete executable file of
\* one version, or nothing: not while the plugin is replaced, nor after a call
\* has failed, nor after a power loss.
PluginWhole == plugin # NoFile => plugin.whole /\ plugin.exec
=============================================================================
