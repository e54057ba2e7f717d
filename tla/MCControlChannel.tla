-------------------------- MODULE MCControlChannel --------------------------
EXTENDS ControlChannel

Env(runtime, state, home, data) ==
    [runtime |-> runtime, state |-> state, home |-> home, data |-> data]

Login == Env(Absolute("run"), Unset, Absolute("home"), Unset)

\* The daemon's runtime directory is relative, so it does not count.
MCDaemonEnv == Env(Relative("run"), Empty, Absolute("home"), Unset)

\* The daemon's; a login session; one without home; one without any of them;
\* one where only the vault can be found.
MCEnvironments ==
    {MCDaemonEnv, Login, Env(Absolute("run"), Unset, Unset, Unset),
     Env(Unset, Unset, Unset, Unset), Env(Unset, Relative("state"), Empty, Unset)}
=============================================================================
