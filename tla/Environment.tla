---------------------------- MODULE Environment ----------------------------
(***************************************************************************)
(* Where the commands look for their files: vault/path.rs for the vault,   *)
(* control/path.rs for the control socket.  Both go by environment         *)
(* variables, each with rules of its own for values that are missing,      *)
(* empty or relative.                                                      *)
(*                                                                         *)
(* The value of a variable is a record of its kind and its text.  A path   *)
(* is the sequence of its components; a relative one begins with the       *)
(* directory it is used in.                                                *)
(***************************************************************************)
LOCAL INSTANCE Sequences

Unset       == [kind |-> "unset", text |-> ""]
Empty       == [kind |-> "empty", text |-> ""]
Absolute(d) == [kind |-> "absolute", text |-> d]
Relative(d) == [kind |-> "relative", text |-> d]

NoPathFound == <<>>

\* PathBuf::from: the empty value stands for the directory itself.
PathOf(v, cwd) ==
    CASE v.kind = "absolute" -> <<v.text>>
      [] v.kind = "relative" -> <<cwd, v.text>>
      [] v.kind = "empty"    -> <<cwd>>

\* A value must be set, not empty, and absolute; else the next one is tried.
Usable(v) == v.kind = "absolute"

PickBaseDir(e, cwd) ==
    IF Usable(e.runtime) THEN PathOf(e.runtime, cwd)
    ELSE IF Usable(e.state) THEN PathOf(e.state, cwd)
    ELSE IF Usable(e.home) THEN PathOf(e.home, cwd) \o <<".local", "state">>
    ELSE NoPathFound

\* resolve_from: the socket; the lock file lies beside it.
ControlSocket(e, cwd) ==
    LET base == PickBaseDir(e, cwd)
    IN  IF base = NoPathFound THEN NoPathFound ELSE base \o <<"invisibool", "ctl.sock">>

\* linux_vault_dir: XDG_DATA_HOME counts only if it is absolute, HOME as it
\* stands.
LinuxVaultDir(e, cwd) ==
    IF e.data.kind = "absolute" THEN PathOf(e.data, cwd) \o <<"invisibool">>
    ELSE IF e.home = Unset THEN NoPathFound
    ELSE PathOf(e.home, cwd) \o <<".local", "share", "invisibool">>

\* resolve_vault_path without --vault.
ResolveVaultPath(e, cwd) ==
    LET dir == LinuxVaultDir(e, cwd)
    IN  IF dir = NoPathFound THEN NoPathFound ELSE dir \o <<"vault.bin">>

=============================================================================
