----------------------------- MODULE BuiltinTools -----------------------------
(***************************************************************************)
(* plugins/builtin: the five tools check the arguments a model chose and   *)
(* hand one command to the sandbox, here LocalSandbox.  PolicyMiddleware   *)
(* asks orchestration/policies/scope.py before, which looks for the target *)
(* in the same arguments.  The rest of the dispatcher is ToolDispatch.     *)
(*                                                                         *)
(* An argument is known by its kind: what some check tells apart.          *)
(***************************************************************************)
EXTENDS LocalSandbox, FiniteSets, Sequences

CONSTANTS
    MaxOdd   \* bound: arguments of a call that are not of a usual kind

ASSUME BuiltinToolsAssumption == MaxOdd \in Nat

VARIABLES
    call     \* the latest call: the kind of the url that its command was given,
             \* "" without one, how its arguments fit the tool's schema, and
             \* whether its text can be encoded where that is done

toolVars == <<sandboxVars, call>>

Network == {"http", "browser"}
Tools == {"shell", "python", "filesystem"} \cup Network

\* Kinds.  "other" has a wrong type or value, "odd" cannot be a member of a set,
\* on which `in` raises.  A null, a boolean for a number and an action's value
\* that is no text ("stray") are what some check is lax about.
\* No command line takes a NUL or a lone surrogate, which UTF-8 cannot encode.
\* In a url the policy reads a host inside or outside the scope, or none, or
\* fails; in a "twofold" one the tool reads another host than the policy.
Urls == {"inside", "outside", "twofold", "hostless", "broken"}
Unpassable == {"nul", "surrogate"}
Texts == {"text"} \cup Unpassable
Strings == {"empty", "blank"} \cup Texts \cup Urls

\* "zero" is any number <= 0, "huge" an integer beyond floats; NaN passes every
\* comparison and fires at once, which is "finite".
Numbers == {"finite", "zero", "infinite", "huge"}
Usual == {"text", "list", "map", "read", "inside", "finite"}
Lax == {"null", "flag", "stray"}

\* One check of execute(): kinds of an argument that pass it, that it turns
\* down with a ToolResult, and on which it raises.
Check(arg, passes, fails, raises) ==
    [arg |-> arg, passes |-> passes, fails |-> fails, raises |-> raises]
Needed(arg) == Check(arg, Texts, {"empty", "other", "absent"}, {})
\* `is not None and not isinstance(...)`: a null is as good as an absent argument.
Optional_Unchecked(arg) == Check(arg, {"absent", "null", "other"} \cup Texts, {}, {})
Optional(arg) == Check(arg, {"absent", "null"} \cup Texts, {"other"}, {})
Number == Check("timeout", Numbers \cup {"flag", "absent"}, {"other"}, {})
Positive == Check("timeout", (Numbers \ {"zero"}) \cup {"flag", "absent"}, {"zero", "other"}, {})
Url == Check("url", Urls \cup Unpassable \cup {"blank"}, {"empty", "other", "absent"}, {})
\* Looked at by the policy only.
Target == Check("target", Urls \cup {"absent"}, {}, {})

\* execute() of each tool, check by check.
ShellChecks ==
    <<Check("command", {"list"} \cup Unpassable, {"empty", "other", "absent"}, {}),
      Number, Optional("directory")>>
PythonChecks == <<Needed("code"), Number, Optional("directory")>>
FilesystemChecks ==
    <<Check("operation", {"read", "write"}, {"other", "absent"}, {"odd"}),
      Needed("path"), Check("content", Texts, {"other", "absent"}, {}), Positive>>
HttpChecks ==
    <<Url, Check("method", Texts \cup {"absent"}, {"empty", "other"}, {}), Positive,
      Check("headers", {"absent", "map"} \cup Unpassable, {"other"}, {}),
      Optional("body"), Target>>
BrowserChecks ==
    <<Url, Check("actions", {"absent", "list", "stray"}, {"other"}, {"odd"}),
      Check("output", {"absent", "text"}, {"other"}, {"odd"}),
      Check("screenshot", Texts \cup {"absent"}, {"empty", "other"}, {}), Positive, Target>>

Checks ==
    [shell |-> ShellChecks, python |-> PythonChecks, filesystem |-> FilesystemChecks,
     http |-> HttpChecks, browser |-> BrowserChecks]

Arguments(t) == {Checks[t][i].arg : i \in DOMAIN Checks[t]}
CheckOf(t, arg) == Checks[t][CHOOSE i \in DOMAIN Checks[t] : Checks[t][i].arg = arg]
KindsOf(t, arg) == LET k == CheckOf(t, arg) IN k.passes \cup k.fails \cup k.raises
UsualOf(t, arg) == CHOOSE u \in CheckOf(t, arg).passes : u \in Usual

\* Arguments of the usual kinds but for those in DOMAIN odd.
With(t, odd) ==
    [arg \in Arguments(t) |-> IF arg \in DOMAIN odd THEN odd[arg] ELSE UsualOf(t, arg)]

OddArguments(t) ==
    UNION {{odd \in [s -> UNION {KindsOf(t, arg) : arg \in s}] :
               \A arg \in s : odd[arg] \in KindsOf(t, arg)} :
           s \in {x \in SUBSET Arguments(t) : Cardinality(x) <= MaxOdd}}

\* The arguments a model may choose for each tool.
Inputs == [t \in Tools |-> {With(t, odd) : odd \in OddArguments(t)}]

-------------------------------------------------------------------------------
\* The host in a text as urlsplit() finds it, and as curl or Chromium does.
PolicyReads(text) ==
    CASE text \in {"inside", "twofold"} \cup Unpassable -> "inside"
      [] text = "outside" -> "outside"
      [] text = "broken" -> "error"
      [] OTHER -> "none"
ToolReads(text) == IF text = "twofold" THEN "outside" ELSE PolicyReads(text)

\* ScopePolicy._target_from and authorize: the first of the target arguments
\* with text decides; the tool uses the url.
Wanted_TargetFirst(a) == IF a.target \in Urls THEN a.target ELSE a.url
Wanted(a) == IF a.url \in Urls \cup Unpassable THEN a.url ELSE a.target
Judged(t, a) ==
    IF t \notin Network THEN "admitted"
    ELSE CASE PolicyReads(Wanted(a)) = "inside" -> "admitted"
           [] PolicyReads(Wanted(a)) = "error" -> "raised"
           [] OTHER -> "denied"

\* What a check looks at: content matters to a write only.
Seen(a, arg) ==
    IF arg = "content" /\ a.operation # "write" THEN "text" ELSE a[arg]

\* body.encode(); what else goes to a stdin is JSON, which escapes a surrogate.
Encodable(t, a) == t = "http" => a.body # "surrogate"

\* The first check that stops the call decides how; float() and encode() come last.
Outcome(t, a) ==
    LET stops == {i \in DOMAIN Checks[t] : Seen(a, Checks[t][i].arg) \notin Checks[t][i].passes}
        first == CHOOSE i \in stops : \A j \in stops : i <= j
    IN IF stops # {}
       THEN IF Seen(a, Checks[t][first].arg) \in Checks[t][first].raises
            THEN "crashed" ELSE "rejected"
       ELSE IF a.timeout = "huge" \/ ~Encodable(t, a) THEN "crashed" ELSE "sent"

TimeoutOf(a) == IF a.timeout \in {"absent", "flag"} THEN "finite" ELSE a.timeout

EndsHow_AsJudged(t, a) == Judged(t, a)
EndsHow(t, a) == IF Judged(t, a) = "admitted" THEN Outcome(t, a) ELSE Judged(t, a)

\* The arguments that become part of the command line or its directory; others
\* go to its stdin.
OnCommandLine ==
    [shell |-> {"command", "directory"}, python |-> {"code", "directory"},
     filesystem |-> {}, http |-> {"url", "method", "headers"}, browser |-> {}]
Passable(t, a) == \A arg \in OnCommandLine[t] : a[arg] \notin Unpassable

\* spec.input_schema of each tool: the kinds of the declared types.
Schema ==
    [shell      |-> [command |-> {"list", "empty"} \cup Unpassable, timeout |-> Numbers,
                     directory |-> Strings],
     python     |-> [code |-> Strings, timeout |-> Numbers, directory |-> Strings],
     filesystem |-> [operation |-> {"read", "write"}, path |-> Strings,
                     content |-> Strings, timeout |-> Numbers],
     http       |-> [url |-> Strings, method |-> Strings, timeout |-> Numbers,
                     headers |-> {"map"} \cup Unpassable, body |-> Strings,
                     target |-> Strings],
     browser    |-> [url |-> Strings, actions |-> {"list"}, output |-> {"text"},
                     screenshot |-> Strings, timeout |-> Numbers, target |-> Strings]]

Required ==
    [shell |-> {"command"}, python |-> {"code"}, filesystem |-> {"operation", "path"},
     http |-> {"url"}, browser |-> {"url"}]

\* What the tool looks at of the arguments is of the declared types or in lax.
Fits(t, a, lax) ==
    /\ \A arg \in Arguments(t) :
          \/ Seen(a, arg) \in Schema[t][arg] \cup lax
          \/ a[arg] = "absent" /\ arg \notin Required[t]
    /\ a.timeout # "huge"

HowFits(t, a) ==
    IF Fits(t, a, {}) THEN "strictly" ELSE IF Fits(t, a, Lax) THEN "loosely" ELSE "no"

\* A model calls a tool: policy, checks and the start of the command.
CallTool(c) ==
    /\ step[c] = "idle"
    /\ \E t \in Tools : \E a \in Inputs[t] :
          LET sent == EndsHow(t, a) = "sent" IN
          /\ call' = [call EXCEPT ![c] =
                         [url       |-> IF sent /\ t \in Network THEN a.url ELSE "",
                          fits      |-> HowFits(t, a),
                          encodable |-> Encodable(t, a)]]
          /\ \/ ~sent /\ EndsBefore(c, EndsHow(t, a)) /\ UNCHANGED faults
             \/ sent /\ Execute(c, TimeoutOf(a), Passable(t, a))

ToolStep(c) ==
    \/ CallTool(c)
    \/ (SandboxStep(c) \/ CommandStep(c)) /\ UNCHANGED call

CallType == [url : Strings \cup {""}, fits : {"strictly", "loosely", "no"}, encodable : BOOLEAN]
NoCall == [url |-> "", fits |-> "strictly", encodable |-> TRUE]
ToolTypeOK ==
    /\ SandboxTypeOK
    /\ call \in [Callers -> CallType]
ToolInit == SandboxInit /\ call = [c \in Callers |-> NoCall]

-------------------------------------------------------------------------------
\* The checks of a tool and the schema the model is shown agree but for what the
\* checks are lax about and for a text that cannot be encoded: a tool raises on no
\* other arguments that fit, and runs a command for no others that do not.
SchemaIsEnforced ==
    \A c \in Callers :
        /\ call[c].fits = "strictly" /\ call[c].encodable => answer[c] # "crashed"
        /\ call[c].fits = "no" => step[c] = "idle" /\ answer[c] \in ToolEndings \cup {"raised"}

\* The policy and the tool choose and read the target each in their own way.  Only
\* a url in which the two read different hosts, as urlsplit() and Chromium may,
\* takes a command of a network tool to a host out of scope.
OnlyMisreadUrlsStray ==
    \A c \in Callers :
        ToolReads(call[c].url) = "outside" => PolicyReads(call[c].url) = "inside"

\* An answered call is over, however it ended - result, timeout or exception:
\* its child has ended and nobody holds its pipes.
ReturnedIsOver ==
    \A c \in Callers : step[c] = "idle" => Ended(c) /\ ~holder[c]

\* A call with a finite timeout ends, whatever its command does, unless a
\* descendant of the command holds the pipes for ever.
CallsEnd ==
    \A c \in Callers :
        <>[]~holder[c] => ((step[c] # "idle" /\ ~endless[c]) ~> step[c] = "idle")
===============================================================================
