------------------------------- MODULE AppConfig -------------------------------
(***************************************************************************)
(* application/config.py: a setting comes from the environment, else from  *)
(* the TOML file, else it has its default; validate_config() looks at the  *)
(* result, and the builders of application/models.py, bootstrap.py and     *)
(* composition.py look again.  A setting is known by the class of its      *)
(* value that some check tells apart, and settings that are checked alike  *)
(* are one: "calls" is the mission and the task limit, and so on.          *)
(***************************************************************************)
EXTENDS Naturals, FiniteSets

CONSTANTS
    MaxSet   \* bound: entries of the file and of the environment, each

ASSUME AppConfigAssumption == MaxSet \in Nat

\* The classes of a setting, and the one of its default.
Setting(default, others) == [default |-> default, classes |-> {default} \cup others]
Named == Setting("named", {"empty"})
Count == Setting("positive", {"negative"})
Seconds == Setting("positive", {"zero", "nan"})
Store == Setting("file", {"memory", "other"})

Settings ==
    [sandbox       |-> Setting("local", {"docker", "other"}),
     image         |-> Named,
     network       |-> Named,   \* sandbox_network, sandbox_workspace
     targets       |-> Setting("good", {"malformed"}),
     calls         |-> Count,
     tokens        |-> Count,
     wall_clock    |-> Seconds,
     cost          |-> Setting("positive", {"negative", "nan"}),
     provider      |-> Setting("known", {"other"}),
     base_url      |-> Setting("http", {"other"}),
     model         |-> Named,
     api_key       |-> Setting("empty", {"named"}),
     model_timeout |-> Seconds,
     path          |-> Named,   \* of the trace and of each store
     artifacts     |-> Store,
     checkpoint    |-> Store,
     storage       |-> Store]

Names == DOMAIN Settings
Parsed == {"calls", "tokens", "wall_clock", "cost", "model_timeout"}

\* Tables with at most k of the names.
Tables(names, k) ==
    UNION {{t \in [d -> (UNION {Settings[n].classes : n \in d}) \cup {"bad"}] :
               \A n \in d : t[n] \in Settings[n].classes \cup {"bad"}} :
           d \in {x \in SUBSET names : Cardinality(x) <= k}}

\* "bad" has a wrong type in the file, and is no number in the environment,
\* where all is text.  The api key comes from the environment only.
Ordinary == Names \ {"api_key"}
Sources ==
    [file : Tables(Ordinary, MaxSet),
     environment : {t \in Tables(Ordinary, MaxSet) :
                       \A n \in DOMAIN t : t[n] = "bad" => n \in Parsed},
     api_key : Settings["api_key"].classes]

-------------------------------------------------------------------------------
\* load_config(): every value of the file is looked at, also those that the
\* environment overrides.
Loads(s) ==
    /\ \A n \in DOMAIN s.file : s.file[n] # "bad"
    /\ \A n \in DOMAIN s.environment : s.environment[n] # "bad"

Said(s, n) ==
    IF n \in DOMAIN s.environment THEN s.environment[n]
    ELSE IF n \in DOMAIN s.file THEN s.file[n]
    ELSE Settings[n].default

\* Path("") is the current directory.
Config(s) ==
    [n \in Names |-> IF n = "api_key" THEN s.api_key
                     ELSE IF n = "path" /\ Said(s, n) = "empty" THEN "named"
                     ELSE Said(s, n)]

Configs == {Config(s) : s \in {x \in Sources : Loads(x)}}

\* validate_config(): no comparison is true of NaN.
Valid_NoSigns(g) ==
    /\ "other" \notin {g.sandbox, g.artifacts, g.checkpoint, g.storage, g.provider}
    /\ g.sandbox = "docker" => g.image = "named"
    /\ g.wall_clock # "zero"
    /\ g.model_timeout # "zero"
    /\ g.path # "empty"
Valid(g) ==
    /\ "other" \notin {g.sandbox, g.artifacts, g.checkpoint, g.storage, g.provider}
    /\ g.sandbox = "docker" => g.image = "named"
    /\ "negative" \notin {g.calls, g.tokens, g.cost}
    /\ g.wall_clock # "zero"
    /\ g.model_timeout # "zero"
    /\ g.path # "empty"

\* build_model_provider()
BuildsModel(g) ==
    /\ g.provider # "other"
    /\ g.base_url = "http"
    /\ g.api_key = "named" /\ g.model = "named"
    /\ g.model_timeout # "zero"

\* build_mission_sandbox(); unsafe is XHUNTER_ALLOW_UNSAFE_LOCAL_SANDBOX=1.
BuildsSandbox_Ungated(g, unsafe) ==
    \/ g.sandbox = "local"
    \/ g.sandbox = "docker" /\ g.image = "named" /\ g.network = "named"
BuildsSandbox(g, unsafe) ==
    \/ g.sandbox = "local" /\ unsafe
    \/ g.sandbox = "docker" /\ g.image = "named" /\ g.network = "named"

\* build_local_runtime()
BuildsRuntime(g, unsafe) ==
    /\ BuildsSandbox(g, unsafe)
    /\ "other" \notin {g.artifacts, g.checkpoint, g.storage}
    /\ "negative" \notin {g.calls, g.tokens, g.cost}
    /\ g.wall_clock # "zero"
    /\ g.targets = "good"

\* _require_file_control_plane()
HasFileControlPlane(g) == g.storage = "file" /\ g.checkpoint = "file"
===============================================================================
