---------------------------- MODULE ClientPolicy -----------------------------
(***************************************************************************)
(* Which client may bind what: start-up and bind policy, and security      *)
(* contexts. Two parts that share no state here.                           *)
(***************************************************************************)
EXTENDS Naturals, FiniteSets

-----------------------------------------------------------------------------
(* From the operator's options to who may bind what: the start-up of the shell      *)
(* plugin, every step of which may fail, and the gates of the privileged globals,   *)
(* which read facts of the peer's process one after the other while that process    *)
(* may be replaced under the same pid. A SELinux label is treated like an exe.      *)

CONSTANT MaxOptions     \* bound: options given at a time

VARIABLES
    asked,      \* the options given
    malformed,  \* those of them that are no valid uid
    step,       \* of wet_shell_init, or its outcome
    inforce,    \* the policy fields that are set
    hooks,      \* what refers to the plugin from outside
    mem,        \* strings allocated and not freed
    bind_shell,  \* a client is bound as the shell
    grant       \* the last bind admitted

bindVars == <<asked, malformed, step, inforce, hooks, mem, bind_shell, grant>>

Uids == {"session", "own", "other"}     \* own: the dedicated uid of an option
Options == {"layer_uid", "layer_exe", "lock_exe", "lock_entry", "lock_any", "ime_uid", "ime_exe"}
Strings == {"layer_exe", "lock_exe", "lock_entry", "ime_exe"}
Globals == {"shell", "locker", "layer", "ime", "vk", "nested", "om"}
\* The exe the options name; an interpreter with the locker's entry point, and with another
\* script; a feed helper; another exe with and without the entry point as its argument.
Programs == {"named", "script", "interpreter", "helper", "lookalike", "plain"}
Peers == [uid : Uids, prog : Programs, tag : {"none", "sandbox", "publisher"},
          rel : {"shell", "samepid", "none"}]
Never == 6      \* reads of the process: 1 start time, 2 exe, 3 argv, 4 exe, 5 start time
NoGrant == [global |-> "none"]

BindTypeOK ==
    /\ asked \subseteq Options /\ malformed \subseteq asked /\ inforce \subseteq Options
    /\ mem \subseteq Strings /\ bind_shell \in BOOLEAN

BindInit ==
    /\ asked \in {o \in SUBSET Options : Cardinality(o) <= MaxOptions}
    /\ malformed \in SUBSET (asked \cap {"layer_uid", "ime_uid"})
    /\ step = "layer" /\ inforce = {} /\ hooks = {} /\ mem = {} /\ bind_shell = FALSE
    /\ grant = NoGrant

Ends(how, left) ==
    /\ step' = how /\ mem' = left
    /\ UNCHANGED <<asked, malformed, inforce, hooks, bind_shell, grant>>
-----------------------------------------------------------------------------
\* qdwin_parse_uid_opt, qdwin_parse_str_opt of a group of options: a malformed uid or a
\* failed strdup ends the start-up, `strays` being the strings that are not freed then.
Parse(group, strays, next) ==
    \/ /\ group \cap malformed # {} \/ group \cap asked \cap Strings # {}
       /\ Ends("refused", strays)
    \/ /\ group \cap malformed = {}
       /\ inforce' = inforce \cup (group \cap asked)
       /\ mem' = mem \cup (group \cap asked \cap Strings) /\ step' = next
       /\ UNCHANGED <<asked, malformed, hooks, bind_shell, grant>>

ParseLayerShell == step = "layer" /\ Parse({"layer_uid", "layer_exe"}, {}, "locker")

ParseLocker ==
    /\ step = "locker"
    /\ IF asked \cap {"lock_exe", "lock_entry", "lock_any"} # {}
       THEN Parse({"lock_exe", "lock_entry"}, mem, "ime")
       ELSE \/ Ends("refused", mem)
            \/ /\ inforce' = inforce \cup {"lock_entry"} /\ mem' = mem \cup {"lock_entry"}
               /\ step' = "ime" /\ UNCHANGED <<asked, malformed, hooks, bind_shell, grant>>

ParseIme == step = "ime" /\ Parse({"ime_uid", "ime_exe"}, {}, "publish")

Hook(new, next) ==
    /\ step' = next /\ hooks' = hooks \cup new
    /\ UNCHANGED <<asked, malformed, inforce, mem, bind_shell, grant>>

\* The fail label.
Fail ==
    /\ step' = "failed" /\ mem' = {} /\ hooks' = hooks \ {"singleton", "default_grab"}
    /\ UNCHANGED <<asked, malformed, inforce, bind_shell, grant>>

\* The singleton, the default pointer grab, lists and layers.
Publish == step = "publish" /\ Hook({"singleton", "default_grab"}, "globals")

\* The desktop, and the globals from qdwin_shell_v1 to the idle inhibitors.
Globals1 == step = "globals" /\ (Hook({"desktop", "globals"}, "bindings") \/ Fail)

\* Key bindings, idle and wake listeners.
Bindings == step = "bindings" /\ Hook({"bindings", "idle_listeners"}, "globals2")

\* From the cursor shapes to the layer shell and the decorations, the global filter.
Globals2 == step = "globals2" /\ (Hook({"filter", "layer_grab_handler"}, "listeners") \/ Fail)

\* Compositor, output and seat listeners, the background, capture, the nested publisher.
Listeners == step = "listeners" /\ Hook({"listeners"}, "running")

\* qdwin_destroy, on the compositor's destroy signal.
Destroy ==
    /\ step = "running" /\ step' = "destroyed" /\ mem' = {} /\ grant' = NoGrant
    /\ hooks' = hooks \ {"desktop", "globals", "idle_listeners", "listeners"}
    /\ UNCHANGED <<asked, malformed, inforce, bind_shell>>
-----------------------------------------------------------------------------
\* What a read of the peer's process shows, if another took its pid before read k.
Seen(p, q, k, n) == IF n < k THEN p.prog ELSE q

\* qdwin_proc_starttime, before and after: one process throughout.
Stable(k) == k = 1 \/ k = Never

\* qdwin_exe_is_system_interpreter, qdwin_path_is_trusted_entrypoint.
EntryPoint(p, q, k) ==
    /\ Seen(p, q, k, 2) \in {"script", "interpreter"}
    /\ Seen(p, q, k, 3) \in {"script", "lookalike"}

\* qdwin_proc_exe compared with the configured path.
ExeNamed(p, q, k) == Seen(p, q, k, 4) = "named"

LockerAllowed(p, q, k) ==
    /\ p.tag = "none" /\ p.uid = "session"
    /\ "lock_entry" \in inforce => EntryPoint(p, q, k)
    /\ "lock_exe" \in inforce => ExeNamed(p, q, k)
    /\ {"lock_entry", "lock_exe"} \cap inforce # {} => Stable(k)

\* bind_qdwin_layer_shell.
LayerAllowed(p, q, k) ==
    /\ p.tag = "none"
    /\ "layer_uid" \in inforce => p.uid = "own"
    /\ "layer_exe" \in inforce => ExeNamed(p, q, k)
    /\ {"layer_uid", "layer_exe"} \cap inforce # {} => Stable(k)
    /\ IF bind_shell THEN p.rel \in {"shell", "samepid"} ELSE p.uid = "session"

\* qdwin_ime_family_bind_allowed.
ImeAllowed(p, q, k) ==
    /\ p.tag = "none"
    /\ p.uid = (IF "ime_uid" \in inforce THEN "own" ELSE "session")
    /\ "ime_exe" \in inforce => ExeNamed(p, q, k) /\ Stable(k)

\* bind_qdwin_nested_manager.
NestedAllowed(p) == p.tag \in {"none", "publisher"} /\ p.uid = "session"

\* qdwin_om_client_may_mutate, qdwin_om_mutation_allowed.
MutateAllowed(p) ==
    /\ p.tag = "none"
    /\ IF bind_shell THEN p.rel \in {"shell", "samepid"} ELSE p.uid = "session"

\* bind_qdwin_shell: beside the bound shell only the two feed helpers.
ShellAllowed(p, q, k) ==
    /\ p.uid = "session" /\ p.tag = "none"
    /\ bind_shell /\ p.rel # "shell" => Seen(p, q, k, 2) = "helper"

Allowed(g, p, q, k) ==
    CASE g = "shell" -> ShellAllowed(p, q, k)
      [] g = "locker" -> LockerAllowed(p, q, k)
      [] g = "layer" -> LayerAllowed(p, q, k)
      [] g \in {"ime", "vk"} -> ImeAllowed(p, q, k)
      [] g = "nested" -> NestedAllowed(p)
      [] OTHER -> MutateAllowed(p)

\* A client can be the shell, or of its process, only if its uid and tag allow it.
Consistent(p) ==
    p.rel # "none" => bind_shell /\ p.uid = "session" /\ (p.rel = "shell" => p.tag = "none")

\* A bind of global g by p, whose pid a process of program q takes over before read k.
\* Recorded is the one program the pid named, if it named one.
PolicyBind(g, p, q, k) ==
          /\ Allowed(g, p, q, k)
          /\ grant' = [global |-> g, uid |-> p.uid, tag |-> p.tag,
                       prog |-> IF k = 1 THEN q ELSE IF k = Never THEN p.prog ELSE "two"]
          /\ UNCHANGED <<asked, malformed, step, inforce, hooks, mem, bind_shell>>

\* qdwin_handle_bind_as_shell, and the shell's unbinding.
ShellChanges ==
    /\ step = "running" /\ bind_shell' = ~bind_shell /\ grant' = NoGrant
    /\ UNCHANGED <<asked, malformed, step, inforce, hooks, mem>>

\* The session is started again with the same options.
Restart ==
    /\ step \in {"refused", "failed", "destroyed"}
    /\ step' = "layer" /\ inforce' = {} /\ hooks' = {} /\ mem' = {} /\ bind_shell' = FALSE
    /\ grant' = NoGrant /\ UNCHANGED <<asked, malformed>>

BindNext ==
    \/ ParseLayerShell \/ ParseLocker \/ ParseIme \/ Publish \/ Globals1 \/ Bindings
    \/ Globals2 \/ Listeners \/ Destroy \/ Restart \/ ShellChanges
    \/ /\ step = "running" /\ grant = NoGrant
       /\ \E g \in Globals, p \in {x \in Peers : Consistent(x)}, k \in 1..Never :
            \E q \in IF k = Never THEN {p.prog} ELSE Programs : PolicyBind(g, p, q, k)

BindSpec == BindInit /\ [][BindNext]_bindVars
-----------------------------------------------------------------------------
\* A restriction the operator asked for is in force whenever the plugin runs, however its
\* start-up went, and the locker is never held to its uid alone unless that was asked for;
\* whoever was admitted is one process that meets every restriction of that global; and a
\* start-up that fails leaves neither the singleton nor the default grab behind.
PolicyEnforced ==
    /\ step = "running" => /\ malformed = {} /\ asked \ {"lock_any"} \subseteq inforce
                           /\ {"lock_exe", "lock_entry"} \cap inforce = {} => "lock_any" \in asked
                           /\ {"singleton", "filter"} \subseteq hooks
    /\ step \in {"refused", "failed"} => {"singleton", "default_grab"} \cap hooks = {}
    /\ grant # NoGrant =>
         /\ grant.tag # "sandbox"
         /\ grant.global = "locker" =>
              /\ "lock_exe" \in asked => grant.prog = "named"
              /\ asked \cap {"lock_exe", "lock_any"} = {} => grant.prog = "script"
         /\ grant.global = "layer" =>
              /\ "layer_exe" \in asked => grant.prog = "named"
              /\ "layer_uid" \in asked => grant.uid = "own"
         /\ grant.global \in {"ime", "vk"} =>
              /\ "ime_exe" \in asked => grant.prog = "named"
              /\ ("ime_uid" \in asked) = (grant.uid = "own")

-----------------------------------------------------------------------------
(* wp_security_context_v1: contexts and the sockets they listen on, the       *)
(* clients accepted through them and the tags they carry, and which globals a *)
(* client of each credential class may see and bind.                          *)

CONSTANTS
    Contexts,
    Conns,       \* client connections
    Helpers,     \* those whose process is the installed secctx helper
    Engines, NONE

\* Privileged globals by their row in the policy: never for the sandboxed, only
\* for the shell and the helper, nested manager, everything else.
Kinds == {"session", "shellonly", "nested", "ordinary"}

VARIABLES
    sec,        \* live qdwin_secctx
    engine,     \* its sandbox_engine, or NONE
    committed,  \* it listens
    resource,   \* the context's protocol object: its client, or NONE
    udata,      \* objects whose user_data still points to the qdwin_secctx
    back,       \* contexts whose ->resource is set
    conn,       \* connected clients
    record,     \* qdwin_secctx_client of a connection, or NONE
    born,       \* engine of the context a client came through, NONE if none
    context_shell,  \* the bound shell
    owns        \* kinds of globals a client has bound

contextVars == <<sec, engine, committed, resource, udata, back, conn, record, born, context_shell, owns>>
ctxs == <<sec, engine, committed, resource, udata, back>>
conns == <<conn, record, born, context_shell, owns>>

Tags == Engines \cup {NONE, ""}

ContextTypeOK ==
    /\ sec \subseteq Contexts /\ committed \subseteq Contexts
    /\ udata \subseteq Contexts /\ back \subseteq Contexts
    /\ engine \in [Contexts -> Tags]
    /\ resource \in [Contexts -> Conns \cup {NONE}]
    /\ conn \subseteq Conns /\ context_shell \in Conns \cup {NONE}
    /\ record \in [Conns -> [secctx : Contexts \cup {NONE}, engine : Tags] \cup {NONE}]
    /\ born \in [Conns -> Tags]
    /\ owns \in [Conns -> SUBSET Kinds]

ContextInit ==
    /\ sec = {} /\ committed = {} /\ udata = {} /\ back = {}
    /\ engine = [x \in Contexts |-> NONE]
    /\ resource = [x \in Contexts |-> NONE]
    /\ conn = {} /\ context_shell = NONE
    /\ record = [c \in Conns |-> NONE]
    /\ born = [c \in Conns |-> NONE]
    /\ owns = [c \in Conns |-> {}]
-----------------------------------------------------------------------------
\* qdwin_secctx_client_is_authorized
Authorized(c) == c = context_shell \/ c \in Helpers

\* qdwin_secctx_global_filter: the credential class, only as far as kind needs it.
Cred(c, kind) ==
    IF record[c] # NONE
    THEN IF kind = "nested" /\ record[c].engine = "tier2" THEN "ordinary" ELSE "secctx"
    ELSE IF kind = "shellonly" /\ Authorized(c) THEN "shell" ELSE "ordinary"

\* qdwin_global_visible
Visible(cred, kind) ==
    CASE kind = "ordinary"  -> TRUE
      [] kind = "shellonly" -> cred = "shell"
      [] OTHER              -> cred # "secctx"

\* A client that connects to the compositor's own socket.
Connect(c) ==
    /\ c \notin conn /\ conn' = conn \cup {c}
    /\ UNCHANGED <<ctxs, record, born, context_shell, owns>>

ContextBind(c, kind) ==
           /\ c \in conn /\ Visible(Cred(c, kind), kind)
           /\ owns' = [owns EXCEPT ![c] = @ \cup {kind}]
           /\ UNCHANGED <<ctxs, conn, record, born, context_shell>>

BindAsShell(c) ==
    /\ c \in conn /\ "session" \in owns[c] /\ context_shell = NONE
    /\ context_shell' = c
    /\ UNCHANGED <<ctxs, conn, record, born, owns>>

CreateListener(x, c) ==
    /\ c \in conn /\ "shellonly" \in owns[c]
    /\ x \notin sec /\ resource[x] = NONE /\ x \notin udata
    /\ sec' = sec \cup {x} /\ udata' = udata \cup {x} /\ back' = back \cup {x}
    /\ resource' = [resource EXCEPT ![x] = c]
    /\ engine' = [engine EXCEPT ![x] = NONE]
    /\ UNCHANGED <<committed, conns>>

SetEngine(x, e) ==
    /\ resource[x] # NONE /\ x \in udata
    /\ x \notin committed /\ engine[x] = NONE
    /\ engine' = [engine EXCEPT ![x] = e]
    /\ UNCHANGED <<sec, committed, resource, udata, back, conns>>

\* The sockets cannot be watched, or the listener starts.
Commit(x) ==
    /\ resource[x] # NONE /\ x \in udata /\ x \notin committed
    /\ committed' = committed \cup {x}
    /\ UNCHANGED <<sec, engine, resource, udata, back, conns>>

\* qdwin_secctx_listen_cb: the tag is copied into the client's own record.
Accept(x, c) ==
    /\ x \in committed /\ c \notin conn
    /\ conn' = conn \cup {c}
    /\ record' = [record EXCEPT ![c] = [secctx |-> x, engine |-> IF engine[x] = NONE THEN "" ELSE engine[x]]]
    /\ born' = [born EXCEPT ![c] = IF engine[x] = NONE THEN "" ELSE engine[x]]
    /\ UNCHANGED <<ctxs, context_shell, owns>>

\* qdwin_secctx_destroy: clients and protocol object are detached; the records
\* of clients that go with their connection (gone) go too.
SecctxDestroy(x, gone) ==
    /\ sec' = sec \ {x} /\ committed' = committed \ {x}
    /\ record' = [c \in Conns |->
          IF c \in gone THEN NONE
          ELSE IF record[c] # NONE /\ record[c].secctx = x THEN [record[c] EXCEPT !.secctx = NONE]
          ELSE record[c]]
    /\ udata' = IF x \in back THEN udata \ {x} ELSE udata
    /\ back' = back \ {x}

CloseHangup(x) ==
    /\ x \in committed
    /\ SecctxDestroy(x, {})
    /\ UNCHANGED <<engine, resource, conn, born, context_shell, owns>>

CommitFails(x) ==
    /\ resource[x] # NONE /\ x \in udata /\ x \notin committed
    /\ SecctxDestroy(x, {})
    /\ UNCHANGED <<engine, resource, conn, born, context_shell, owns>>

\* The context object goes: before commit the context goes with it, after
\* commit the listener is only detached from it.
ResourceDestroyed(x) ==
    /\ resource[x] # NONE
    /\ resource' = [resource EXCEPT ![x] = NONE]
    /\ IF x \in udata /\ x \notin committed
       THEN SecctxDestroy(x, {})
       ELSE /\ back' = back \ {x} /\ udata' = udata \ {x}
            /\ UNCHANGED <<sec, committed, record>>
    /\ UNCHANGED <<engine, conn, born, context_shell, owns>>

\* Its objects are destroyed one by one before the connection is gone.
Disconnect(c) ==
    /\ c \in conn /\ \A x \in Contexts : resource[x] # c
    /\ conn' = conn \ {c}
    /\ record' = [record EXCEPT ![c] = NONE]
    /\ born' = [born EXCEPT ![c] = NONE]
    /\ owns' = [owns EXCEPT ![c] = {}]
    /\ context_shell' = IF context_shell = c THEN NONE ELSE context_shell
    /\ UNCHANGED ctxs

ContextNext ==
    \/ \E c \in Conns : Connect(c) \/ BindAsShell(c) \/ Disconnect(c) \/ \E k \in Kinds : ContextBind(c, k)
    \/ \E x \in Contexts :
          \/ Commit(x) \/ CommitFails(x) \/ CloseHangup(x) \/ ResourceDestroyed(x)
          \/ \E c \in Conns : CreateListener(x, c) \/ Accept(x, c)
          \/ \E e \in Engines : SetEngine(x, e)

ContextSpec == ContextInit /\ [][ContextNext]_contextVars
-----------------------------------------------------------------------------
\* A client that came in through a security context carries the tag it came in
\* with for as long as it is connected - its listener, the context's creator and
\* the shell may all be gone - and so never holds an object of a privileged
\* global (the nested manager apart, for the tier-2 engine); no record and no
\* protocol object points to a freed context.
SandboxKept ==
    /\ \A c \in conn : born[c] # NONE =>
          /\ record[c] # NONE /\ record[c].engine = born[c]
          /\ owns[c] \cap {"session", "shellonly"} = {}
          /\ "nested" \in owns[c] => born[c] = "tier2"
          /\ context_shell # c
    /\ \A c \in Conns : record[c] # NONE => record[c].secctx \in sec \cup {NONE}
    /\ udata \subseteq sec
    /\ \A x \in back : resource[x] # NONE
=============================================================================
