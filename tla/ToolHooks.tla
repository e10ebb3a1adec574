------------------------------ MODULE ToolHooks ------------------------------
(***************************************************************************)
(* ToolHookHandler and PolicyGuard (policy.py): the hooks the host runs    *)
(* before and after a tool call.  Each hook finds the mission of its       *)
(* session with three reads in three connections, so commands, turns and   *)
(* rotations commit between them; each may run into a locked database.     *)
(* The first hook blocks or lets the call run, the second records it.      *)
(*                                                                         *)
(* What PolicyGuard looks for in the arguments is a set of Traits (live    *)
(* trading, destructive, a path or a host that is not on a list), and a    *)
(* contract is the set of traits it refuses.                               *)
(***************************************************************************)
EXTENDS SupergoalStore

CONSTANTS
  Slots,    \* hook invocations that may be under way together
  Calls,    \* tool_call_ids
  Traits

ASSUME RecordsAssumption ==
  Records \subseteq [active : BOOLEAN, auto : BOOLEAN, contract : SUBSET Traits]

ASSUME CallsAssumption == Calls = Sources /\ {"ran", "blocked"} \subseteq Kinds

VARIABLES
  hooks,    \* Slots -> where the hook is and what it has read
  permitted \* Slots -> at some instant of its pre hook the call was permitted

hookVars == <<runs, bindings, events, hooks, permitted>>

Idle == [at |-> "idle", session |-> Null, call |-> Null, traits |-> {}, outcome |-> "none", run |-> Null]

PreReads == {"pre run", "pre current", "pre load"}
PostReads == {"post run", "post current", "post load"}

\* PolicyGuard.pre_tool_call: full_auto adds nothing to the host's own checks.
Refuses(record, traits) == ~record.auto /\ traits \cap record.contract # {}

\* The answer of the pre hook if it read everything at once.
PermittedNow(rs, bs, s, traits) ==
  \/ s \notin DOMAIN bs
  \/ ~bs[s].current
  \/ LET record == rs[bs[s].run].record
     IN  record.active => ~Refuses(record, traits)

HooksInit ==
  /\ Init
  /\ hooks = [p \in Slots |-> Idle]
  /\ permitted = [p \in Slots |-> FALSE]

\* What a session that is bound to nothing, or demoted, or whose run has no
\* row gets: the call runs, and is not recorded.
NoMission(h) ==
  IF h.at \in PreReads THEN [h EXCEPT !.at = "over", !.outcome = "ran"]
                       ELSE [h EXCEPT !.at = "done"]

\* Fault: a pre hook that cannot read the database lets the call run.
FailureOpen(h) == NoMission(h)

\* An exception of the pre hook blocks, one of the post hook is swallowed.
Failure(h) ==
  IF h.at \in PreReads THEN [h EXCEPT !.at = "over", !.outcome = "blocked"]
                       ELSE [h EXCEPT !.at = "done"]

AtRun(h) == h.at \in {"pre run", "post run"}
AtCurrent(h) == h.at \in {"pre current", "post current"}

ReadRun(h) ==
  IF h.session \notin DOMAIN bindings THEN NoMission(h)
  ELSE [h EXCEPT !.run = bindings[h.session].run,
                 !.at = IF h.at = "pre run" THEN "pre current" ELSE "post current"]

ReadCurrent(h) ==
  IF ~bindings[h.session].current THEN NoMission(h)
  ELSE [h EXCEPT !.at = IF h.at = "pre current" THEN "pre load" ELSE "post load"]

Decide(h) ==
  LET record == runs[h.run].record
  IN  [h EXCEPT !.at = "over",
                !.outcome = IF record.active /\ Refuses(record, h.traits)
                            THEN "blocked" ELSE "ran"]

-----------------------------------------------------------------------------
\* The host calls the pre hook; a call without a session runs.
PreToolCall(p, s, call, traits) ==
  /\ hooks[p] = Idle
  /\ hooks' = [hooks EXCEPT ![p] =
                 [Idle EXCEPT !.at = "pre run", !.session = s, !.call = call, !.traits = traits]]
  /\ UNCHANGED vars

Read(p) ==
  /\ \/ AtRun(hooks[p]) /\ hooks' = [hooks EXCEPT ![p] = ReadRun(@)]
     \/ AtCurrent(hooks[p]) /\ hooks' = [hooks EXCEPT ![p] = ReadCurrent(@)]
     \/ hooks[p].at = "pre load" /\ hooks' = [hooks EXCEPT ![p] = Decide(@)]
  /\ UNCHANGED vars

\* The database is locked for longer than the timeout of a connection.
Fails(p) ==
  /\ hooks[p].at \in PreReads \cup PostReads \cup {"append"}
  /\ hooks' = [hooks EXCEPT ![p] = Failure(@)]
  /\ UNCHANGED vars

\* The host reports the call, executed or blocked, maybe for a second time.
PostToolCall(p) ==
  /\ hooks[p].at \in {"over", "done"}
  /\ hooks' = [hooks EXCEPT ![p].at = "post run"]
  /\ UNCHANGED vars

\* Nothing is recorded without a call id, or of a result without text.
Observe(p) ==
  /\ hooks[p].at = "post load"
  /\ \E text \in BOOLEAN :
       hooks' = [hooks EXCEPT ![p].at =
                   IF text /\ hooks[p].call # Null THEN "append" ELSE "done"]
  /\ UNCHANGED vars

\* append_event_once.
Record(p) ==
  /\ hooks[p].at = "append"
  /\ AppendEvent(hooks[p].run, hooks[p].outcome, hooks[p].call)
  /\ hooks' = [hooks EXCEPT ![p].at = "done"]

Forget(p) ==
  /\ hooks[p].at = "done"
  /\ hooks' = [hooks EXCEPT ![p] = Idle]
  /\ UNCHANGED vars

-----------------------------------------------------------------------------
\* RuntimeManager.start; commands and turns, which save the whole record.
Start(s, r, record) ==
  /\ r \notin DOMAIN runs
  /\ s \notin DOMAIN bindings
  /\ runs' = UpsertRun(runs, r, record, Null)
  /\ bindings' = BindSession(bindings, s, r)
  /\ UNCHANGED <<events, hooks>>

Save(r, record) ==
  /\ r \in DOMAIN runs
  /\ SaveRun(r, record, Null)
  /\ UNCHANGED hooks

Rotate(old, new) == RotateSessionBinding(old, new) /\ UNCHANGED hooks

\* The pre hooks under way note whether their call is permitted right now.
Notes ==
  permitted' = [p \in Slots |->
    /\ hooks'[p] # Idle
    /\ \/ permitted[p]
       \/ /\ hooks'[p].at \in PreReads
          /\ PermittedNow(runs', bindings', hooks'[p].session, hooks'[p].traits)]

Step ==
  \/ \E p \in Slots, s \in Sessions, call \in Calls \cup {Null}, traits \in SUBSET Traits :
       PreToolCall(p, s, call, traits)
  \/ \E p \in Slots : Read(p)
  \/ \E p \in Slots : Fails(p)
  \/ \E p \in Slots : PostToolCall(p)
  \/ \E p \in Slots : Observe(p)
  \/ \E p \in Slots : Record(p)
  \/ \E p \in Slots : Forget(p)
  \/ \E s \in Sessions, r \in Runs, record \in Records : Start(s, r, record)
  \/ \E r \in Runs, record \in Records : Save(r, record)
  \/ \E old, new \in Sessions : Rotate(old, new)

HooksNext == Step /\ Notes

HooksSpec == HooksInit /\ [][HooksNext]_hookVars

-----------------------------------------------------------------------------
HooksOK ==
  /\ TablesOK(runs, bindings, events)
  /\ ReferencesOK(runs, bindings, events)
  /\ hooks \in [Slots -> [at : PreReads \cup PostReads \cup {"idle", "over", "append", "done"},
                          session : Sessions \cup {Null}, call : Calls \cup {Null},
                          traits : SUBSET Traits, outcome : {"none", "ran", "blocked"},
                          run : Runs \cup {Null}]]

\* "In supervised mode, contract violations block": a call runs only if there
\* was an instant of its pre hook at which one atomic look would have let it,
\* whatever commits between the three reads and however they fail (policy.py,
\* ToolHookHandler.pre_tool_call).
RunsOnlyIfPermitted ==
  \A p \in Slots : hooks[p].outcome = "ran" => permitted[p]

\* "safe under concurrent sessions": a call that was recorded is an event of
\* the mission its session belongs to, although the hook checks the driver
\* and appends in different transactions (policy.py, post_tool_call).
RecordsInOwnMission ==
  \A p \in Slots :
    hooks[p].run # Null =>
      /\ hooks[p].run \in DOMAIN runs
      /\ hooks[p].session \in DOMAIN bindings
      /\ bindings[hooks[p].session].run = hooks[p].run
=============================================================================
