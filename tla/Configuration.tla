--------------------------- MODULE Configuration ---------------------------
(***************************************************************************)
(* load_app_config: built-in defaults, then a YAML file, then environment  *)
(* variables, then the rules of _validate.                                 *)
(*                                                                         *)
(* A value is a pair of its Python type and what the rules can tell of it. *)
(* Floats are whole numbers, so that a number > 0 is one >= 1; the two     *)
(* thresholds are in hundredths.  A text is a name for a class of texts:   *)
(* blank, of the choices of its setting, or another.                       *)
(***************************************************************************)
EXTENDS Integers, Sequences

CONSTANTS
    Inputs          \* what the loader may find: files and environment

VARIABLES
    input,          \* files and environment of this start
    values,         \* values of load_app_config: section, key, value
    stage           \* how far load_app_config is

loaderVars == <<input, values, stage>>

Integer(n) == <<"int", n>>
Float(n) == <<"float", n>>
NaN == <<"nan", 0>>
Infinity == <<"inf", 0>>
Bool(b) == <<"bool", b>>
Text(s) == <<"text", s>>
Null == <<"null", 0>>
Mapping(m) == <<"map", m>>
Blank == "blank"

IsInt(v) == v[1] = "int"
IsNumber(v) == v[1] \in {"int", "float", "nan", "inf"}
IsMapping(v) == v[1] = "map"

\* dict.update: the entries of override, and those of base it leaves out.
Updated(base, override) ==
    [k \in DOMAIN base \cup DOMAIN override |->
        IF k \in DOMAIN override THEN override[k] ELSE base[k]]

\* Comparisons of Python numbers: every one with NaN is false.
LessThan(v, n) == v[1] \in {"int", "float"} /\ v[2] < n
GreaterThan(v, n) == v[1] = "inf" \/ (v[1] \in {"int", "float"} /\ v[2] > n)
Exceeds(v, w) == w[1] \in {"int", "float"} /\ GreaterThan(v, w[2])

-----------------------------------------------------------------------------
(* The settings: type, default and limits of each.                         *)

NoLimit == 1000000000

Setting(type, default, low, high, choices) ==
    [type |-> type, default |-> default, low |-> low, high |-> high,
     choices |-> choices]

Whole(default, low, high) == Setting("int", Integer(default), low, high, {})
Number(default, low, high) == Setting("number", Float(default), low, high, {})
Positive(default, high) == Number(default, 1, high)
Threshold(default) == Setting("threshold", Float(default), 0, 100, {})
On == Setting("flag", Bool(TRUE), 0, 0, {})
Off == Setting("flag", Bool(FALSE), 0, 0, {})
Name(default) == Setting("name", Text(default), 0, 0, {})
OneOf(default, choices) == Setting("choice", Text(default), 0, 0, choices)

DatabaseSettings == [url |-> OneOf(Blank, {"postgresql"})]

CameraSettings ==
    [device |-> Whole(0, 0, NoLimit), width |-> Whole(1280, 1, NoLimit),
     height |-> Whole(720, 1, NoLimit), fps |-> Whole(30, 1, NoLimit),
     source_name |-> Name("azure_kinect")]

DetectorSettings ==
    [model_path |-> Name("yolov6n"), confidence_threshold |-> Threshold(40),
     timeout_seconds |-> Positive(10, NoLimit)]

MemorySettings ==
    [source |-> Name("vision_memory"), iou_threshold |-> Threshold(30),
     max_missed_frames |-> Whole(8, 0, NoLimit)]

EntityMemorySettings ==
    [identity_strategy |-> OneOf("tracker_id", {"tracker_id"}),
     snapshot_min_interval_seconds |-> Number(0, 0, NoLimit),
     snapshot_on_update |-> On]

ApiSettings ==
    [enabled |-> Off, host |-> Name("0.0.0.0"),
     port |-> Whole(8080, 1, 65535), default_limit |-> Whole(50, 1, NoLimit),
     maximum_limit |-> Whole(200, 1, NoLimit)]

TimelineSettings ==
    [default_limit |-> Whole(50, 1, NoLimit), maximum_limit |-> Whole(200, 1, NoLimit)]

StreamSettings ==
    [enabled |-> On,
     notify_channel |-> OneOf("jarvis_activity", {"jarvis_activity", "other"}),
     observation_notifications_enabled |-> Off,
     observation_min_interval_seconds |-> Number(1, 0, NoLimit),
     client_queue_size |-> Whole(100, 1, NoLimit),
     heartbeat_interval_seconds |-> Positive(20, NoLimit),
     max_connections |-> Whole(25, 1, NoLimit),
     reconnect_initial_seconds |-> Positive(1, NoLimit),
     reconnect_max_seconds |-> Positive(30, NoLimit)]

SpatialSettings ==
    [enabled |-> On,
     position_strategy |-> OneOf("bottom_center", {"bottom_center", "center"}),
     enter_confirm_observations |-> Whole(3, 1, NoLimit),
     exit_confirm_observations |-> Whole(3, 1, NoLimit),
     lost_track_timeout_seconds |-> Positive(15, 3600),
     maximum_zones_per_camera |-> Whole(10, 1, 100),
     occupancy_stale_seconds |-> Positive(60, 3600),
     publish_occupancy_changes |-> On]

AlertSettings ==
    [enabled |-> On, consumer_name |-> Name("evaluator"),
     queue_size |-> Whole(500, 1, NoLimit),
     reconcile_interval_seconds |-> Number(2, 0, NoLimit),
     reconcile_batch_size |-> Whole(100, 1, NoLimit),
     replay_overlap_seconds |-> Number(5, 0, NoLimit),
     max_rules |-> Whole(100, 1, 1000),
     default_cooldown_seconds |-> Whole(60, 1, NoLimit),
     max_metadata_bytes |-> Whole(8192, 1, NoLimit),
     startup_catchup_limit |-> Whole(500, 1, NoLimit),
     timezone_default |-> OneOf("UTC", {"UTC", "Europe/Paris"})]

NotificationSettings ==
    [enabled |-> On, worker_id |-> Name("worker"),
     allow_private_targets |-> Off,
     max_attempts |-> Whole(5, 1, 50),
     max_concurrent_deliveries |-> Whole(3, 1, 50),
     batch_size |-> Whole(50, 1, 500),
     max_request_bytes |-> Whole(65536, 1, 1048576),
     max_response_bytes |-> Whole(8192, 1, 1048576),
     retention_days |-> Whole(30, 1, 3650),
     worker_poll_interval_seconds |-> Positive(1, 3600),
     initial_backoff_seconds |-> Positive(30, NoLimit),
     max_backoff_seconds |-> Positive(1800, NoLimit),
     backoff_multiplier |-> Positive(2, NoLimit),
     request_timeout_seconds |-> Positive(5, 120),
     lock_timeout_seconds |-> Positive(60, NoLimit)]

LoggingSettings ==
    [level |-> OneOf("INFO", {"CRITICAL", "ERROR", "WARNING", "INFO", "DEBUG",
                              "NOTSET"}),
     log_file |-> Name("jarvis.log")]

RuntimeSettings ==
    [platform |-> Name("raspberry_pi_5"), application |-> Name("jarvis")]

\* Every section but ops, which is nested one level deeper.
Flat ==
    [database |-> DatabaseSettings, camera |-> CameraSettings,
     detector |-> DetectorSettings, memory |-> MemorySettings,
     entity_memory |-> EntityMemorySettings, api |-> ApiSettings,
     timeline |-> TimelineSettings, activity_stream |-> StreamSettings,
     spatial |-> SpatialSettings, alerts |-> AlertSettings,
     notifications |-> NotificationSettings, logging |-> LoggingSettings,
     runtime |-> RuntimeSettings]

RetentionRoot ==
    [enabled |-> Off, dry_run |-> On,
     interval_seconds |-> Whole(86400, 60, 604800),
     batch_size |-> Whole(250, 1, 1000), max_batches_per_run |-> Whole(4, 1, 100),
     allow_manual_destructive_run |-> Off]

Policy(keep, days) ==
    [k \in {"enabled", keep} |->
        IF k = "enabled" THEN Off ELSE Whole(days, 1, 3650)]

RetentionDomains ==
    [observations |-> Policy("keep_days", 30),
     entities |-> Policy("keep_closed_days", 90),
     zone_sessions |-> Policy("keep_closed_days", 90),
     alerts |-> Policy("keep_resolved_days", 90),
     evaluator_state |-> Policy("keep_inactive_days", 30),
     notification_deliveries |-> Policy("keep_terminal_days", 90)]

DefaultsOf(settings) == [k \in DOMAIN settings |-> settings[k].default]

DefaultRetention ==
    Updated(DefaultsOf(RetentionRoot),
            [d \in DOMAIN RetentionDomains |->
                Mapping(DefaultsOf(RetentionDomains[d]))])

DefaultValues ==
    Updated([s \in DOMAIN Flat |-> DefaultsOf(Flat[s])],
            [ops |-> [retention |-> Mapping(DefaultRetention)]])

\* Where a setting is: <<section, key>>, or <<"ops", domain, key>>.
FlatPaths == UNION {{<<s, k>> : k \in DOMAIN Flat[s]} : s \in DOMAIN Flat}
RootPaths == {<<"ops", k>> : k \in DOMAIN RetentionRoot}
DomainPaths ==
    UNION {{<<"ops", d, k>> : k \in DOMAIN RetentionDomains[d]} :
           d \in DOMAIN RetentionDomains}
Paths == FlatPaths \cup RootPaths \cup DomainPaths

SettingAt(p) ==
    IF p[1] # "ops" THEN Flat[p[1]][p[2]]
    ELSE IF Len(p) = 2 THEN RetentionRoot[p[2]]
    ELSE RetentionDomains[p[2]][p[3]]

ValueAt(vals, p) ==
    IF p[1] # "ops" THEN vals[p[1]][p[2]]
    ELSE IF Len(p) = 2 THEN vals.ops.retention[2][p[2]]
    ELSE vals.ops.retention[2][p[2]][2][p[3]]

-----------------------------------------------------------------------------
(* The file.                                                               *)

NoFile == <<"none", 0>>
Missing == <<"missing", 0>>
Invalid == <<"invalid", 0>>     \* unreadable, not YAML, or not a mapping

\* _resolve_config_path: a file that was named must exist, and hides the rest.
ConfigFile(files) ==
    IF files.explicit # NoFile THEN files.explicit
    ELSE IF files.environment # NoFile THEN files.environment
    ELSE IF files.default = Missing THEN NoFile
    ELSE files.default

KnownKeys(v, keys) == v = Null \/ (IsMapping(v) /\ DOMAIN v[2] \subseteq keys)

\* _deep_merge_retention accepts the mapping.
RetentionKnown(v) ==
    /\ KnownKeys(v, DOMAIN DefaultRetention)
    /\ v # Null =>
          \A d \in DOMAIN v[2] \cap DOMAIN RetentionDomains :
              KnownKeys(v[2][d], DOMAIN RetentionDomains[d])

\* _merge_yaml and _merge_ops_yaml accept the file.
FileKnown(data) ==
    /\ DOMAIN data \subseteq DOMAIN DefaultValues
    /\ \A s \in DOMAIN data : KnownKeys(data[s], DOMAIN DefaultValues[s])
    /\ "ops" \in DOMAIN data /\ data["ops"] # Null =>
          \A k \in DOMAIN data["ops"][2] : RetentionKnown(data["ops"][2][k])

MergedUnder(base, override) ==
    [k \in DOMAIN base |->
        IF k \notin DOMAIN override[2] THEN base[k]
        ELSE IF k \notin DOMAIN RetentionDomains THEN override[2][k]
        ELSE IF override[2][k] = Null THEN base[k]
        ELSE Mapping(Updated(override[2][k][2], base[k][2]))]

\* A domain that is named keeps the keys the file leaves out.
MergedRetention(base, override) ==
    [k \in DOMAIN base |->
        IF k \notin DOMAIN override[2] THEN base[k]
        ELSE IF k \notin DOMAIN RetentionDomains THEN override[2][k]
        ELSE IF override[2][k] = Null THEN base[k]
        ELSE Mapping(Updated(base[k][2], override[2][k][2]))]

MergedOps(base, override) ==
    IF "retention" \notin DOMAIN override \/ override["retention"] = Null
    THEN base
    ELSE [retention |->
             Mapping(MergedRetention(base.retention[2], override["retention"]))]

Merged(vals, data) ==
    [s \in DOMAIN vals |->
        IF s \notin DOMAIN data \/ data[s] = Null THEN vals[s]
        ELSE IF s = "ops" THEN MergedOps(vals[s], data[s][2])
        ELSE Updated(vals[s], data[s][2])]

-----------------------------------------------------------------------------
(* The environment.  A variable is written here as the value it spells:    *)
(* digits are an integer, true, yes, on and their negations are booleans,  *)
(* everything else is a text.                                              *)

\* _set_env_int, _set_env_float, _set_env_bool, _set_env_string: what a
\* spelling means for a setting, nothing when it is refused.
Parsed(type, spelt) ==
    CASE type = "int" -> IF IsInt(spelt) THEN {spelt} ELSE {}
      [] type \in {"number", "threshold"} ->
            IF IsInt(spelt) THEN {Float(spelt[2])}
            ELSE IF IsNumber(spelt) THEN {spelt} ELSE {}
      [] type = "flag" ->
            IF spelt[1] = "bool" THEN {spelt}
            ELSE IF spelt \in {Integer(0), Integer(1)} THEN {Bool(spelt = Integer(1))} ELSE {}
      [] OTHER -> IF spelt[1] = "text" THEN {spelt} ELSE {Text("other")}

EnvironmentKnown(environ) ==
    \A p \in DOMAIN environ : Parsed(SettingAt(p).type, environ[p]) # {}

\* What a variable sets its setting to; a variable that is absent sets nothing.
Override(environ, p, old) ==
    IF p \in DOMAIN environ
    THEN CHOOSE v \in Parsed(SettingAt(p).type, environ[p]) : TRUE
    ELSE old

\* _apply_retention_env_overrides.
OverriddenRetention(environ, ret) ==
    [k \in DOMAIN ret |->
        IF k \in DOMAIN RetentionDomains
        THEN Mapping([f \in DOMAIN ret[k][2] |->
                         Override(environ, <<"ops", k, f>>, ret[k][2][f])])
        ELSE Override(environ, <<"ops", k>>, ret[k])]

\* _apply_env_overrides.
Overridden(environ, vals) ==
    [s \in DOMAIN vals |->
        IF s = "ops"
        THEN [retention |->
                 Mapping(OverriddenRetention(environ, vals.ops.retention[2]))]
        ELSE [k \in DOMAIN vals[s] |-> Override(environ, <<s, k>>, vals[s][k])]]

-----------------------------------------------------------------------------
(* The rules.                                                              *)

Satisfies(setting, v) ==
    \/ setting.type = "flag" /\ v[1] = "bool"
    \/ setting.type = "name" /\ v[1] = "text" /\ v[2] # Blank
    \/ setting.type = "choice" /\ v[1] = "text" /\ v[2] \in setting.choices
    \/ setting.type = "int" /\ IsInt(v) /\ v[2] \in setting.low..setting.high
    \/ /\ setting.type = "threshold" /\ v[1] \in {"int", "float"}
       /\ v[2] \in setting.low..setting.high
    \* Refused when it is too small or too large, which NaN never is.
    \/ /\ setting.type = "number" /\ IsNumber(v)
       /\ ~LessThan(v, setting.low)
       /\ setting.high = NoLimit \/ ~GreaterThan(v, setting.high)

OrderedWithoutTimeline ==
    {<<"api", "default_limit", "maximum_limit">>,
     <<"activity_stream", "reconnect_initial_seconds", "reconnect_max_seconds">>,
     <<"notifications", "initial_backoff_seconds", "max_backoff_seconds">>}

\* Pairs of settings of which the first may not exceed the second.
Ordered ==
    {<<"api", "default_limit", "maximum_limit">>,
     <<"timeline", "default_limit", "maximum_limit">>,
     <<"activity_stream", "reconnect_initial_seconds", "reconnect_max_seconds">>,
     <<"notifications", "initial_backoff_seconds", "max_backoff_seconds">>}

InOrder(vals) ==
    \A o \in Ordered : ~Exceeds(vals[o[1]][o[2]], vals[o[1]][o[3]])

DomainsEnabled(ret) ==
    {d \in DOMAIN RetentionDomains : ret[d][2].enabled = Bool(TRUE)}

\* The last rule of _validate_retention: a run that deletes has a domain.
DestructiveHasDomain(ret) ==
    ret.enabled = Bool(TRUE) /\ ret.dry_run = Bool(FALSE) =>
        DomainsEnabled(ret) # {}

\* _validate and _validate_retention: each setting by itself, then together.
Valid(vals) ==
    /\ \A p \in Paths : Satisfies(SettingAt(p), ValueAt(vals, p))
    /\ InOrder(vals)
    /\ DestructiveHasDomain(vals.ops.retention[2])

-----------------------------------------------------------------------------
(* load_app_config.                                                        *)

\* float(...) of _build_config; the other types are already what they become.
Coerced(setting, v) ==
    IF setting.type \in {"number", "threshold"} /\ IsInt(v) THEN Float(v[2]) ELSE v

\* _build_retention_config.
BuiltRetention(ret) ==
    [k \in DOMAIN ret |->
        IF k \in DOMAIN RetentionDomains
        THEN Mapping([f \in DOMAIN RetentionDomains[k] |->
                         Coerced(RetentionDomains[k][f], ret[k][2][f])])
        ELSE Coerced(RetentionRoot[k], ret[k])]

\* _build_config.
Built(vals) ==
    [s \in DOMAIN vals |->
        IF s = "ops" THEN [retention |-> Mapping(BuiltRetention(vals.ops.retention[2]))]
        ELSE [k \in DOMAIN vals[s] |-> Coerced(Flat[s][k], vals[s][k])]]

NoInput ==
    [files |-> [explicit |-> NoFile, environment |-> NoFile, default |-> NoFile],
     environ |-> [p \in {} |-> Null]]

LoaderInit ==
    /\ input \in Inputs
    /\ values = DefaultValues /\ stage = "defaults"

Refuse == stage' = "refused" /\ UNCHANGED <<input, values>>

ReadFile ==
    /\ stage = "defaults"
    /\ LET file == ConfigFile(input.files)
       IN  IF file = NoFile THEN stage' = "merged" /\ UNCHANGED <<input, values>>
           ELSE IF IsMapping(file) /\ FileKnown(file[2])
           THEN /\ values' = Merged(values, file[2])
                /\ stage' = "merged" /\ UNCHANGED input
           ELSE Refuse

ReadEnvironment ==
    /\ stage = "merged"
    /\ IF EnvironmentKnown(input.environ)
       THEN /\ values' = Overridden(input.environ, values)
            /\ stage' = "overridden" /\ UNCHANGED input
       ELSE Refuse

Validate ==
    /\ stage = "overridden"
    /\ IF Valid(values)
       THEN values' = Built(values) /\ stage' = "accepted" /\ UNCHANGED input
       ELSE Refuse

Load == ReadFile \/ ReadEnvironment \/ Validate

-----------------------------------------------------------------------------
(* Properties.                                                             *)

\* The settings a file mentions, each where it is written.
Mentions(data, p) ==
    /\ p[1] \in DOMAIN data /\ data[p[1]] # Null
    /\ LET section == data[p[1]][2]
       IN  IF p[1] # "ops" THEN p[2] \in DOMAIN section
           ELSE /\ "retention" \in DOMAIN section /\ section["retention"] # Null
                /\ LET ret == section["retention"][2]
                   IN  /\ p[2] \in DOMAIN ret
                       /\ Len(p) = 3 => ret[p[2]] # Null /\ p[3] \in DOMAIN ret[p[2]][2]

SectionsOf(data) ==
    [s \in {t \in DOMAIN data : IsMapping(data[t])} |-> data[s][2]]

\* A value that a file or a variable gives a setting: a pair, with the content
\* that its type has.
Written(v) ==
    /\ v = <<v[1], v[2]>>
    /\ v[1] \in {"int", "float"} => v[2] \in Int
    /\ v[1] = "bool" => v \in {Bool(TRUE), Bool(FALSE)}

ASSUME InputsAssumption ==
    \A i \in Inputs :
        LET file == ConfigFile(i.files)
        IN  /\ IsMapping(file) /\ FileKnown(file[2]) =>
                  \A p \in Paths : Mentions(file[2], p) =>
                                       Written(ValueAt(SectionsOf(file[2]), p))
            /\ \A p \in DOMAIN i.environ : Written(i.environ[p])

\* config/loader.py:3 "Precedence (highest wins)": every setting of an
\* accepted configuration is what its variable says, else what the one file
\* that counts says at its place, else the default, however deep it is nested.
LastLayerWins ==
    stage = "accepted" =>
        LET file == ConfigFile(input.files)
        IN  \A p \in Paths :
               IF p \in DOMAIN input.environ
               THEN ValueAt(values, p) \in Parsed(SettingAt(p).type, input.environ[p])
               ELSE ValueAt(values, p) =
                       IF file # NoFile /\ Mentions(file[2], p)
                       THEN Coerced(SettingAt(p), ValueAt(SectionsOf(file[2]), p))
                       ELSE SettingAt(p).default

\* What the constructors of both processes demand, in their own terms.
MemoryAccepts(memory) ==
    /\ memory.iou_threshold[2] \in 0..100
    /\ ~LessThan(memory.max_missed_frames, 0)

SpatialAccepts(spatial, camera) ==
    /\ \A k \in {"enter_confirm_observations", "exit_confirm_observations",
               "maximum_zones_per_camera", "lost_track_timeout_seconds",
               "occupancy_stale_seconds"} : ~LessThan(spatial[k], 1)
    /\ \A k \in {"width", "height"} : ~LessThan(camera[k], 1)

EntityMemoryAccepts(memory) ==
    ~LessThan(memory.snapshot_min_interval_seconds, 0)

IdentityMatcherKnown(memory) == memory.identity_strategy = Text("tracker_id")

PublisherAccepts(stream) ==
    /\ stream.notify_channel \in {Text("jarvis_activity"), Text("other")}
    /\ ~LessThan(stream.observation_min_interval_seconds, 0)

BrokerAccepts(stream) ==
    \A k \in {"client_queue_size", "max_connections"} : ~LessThan(stream[k], 1)

ConstructorsAccept(vals) ==
    /\ MemoryAccepts(vals.memory)
    /\ SpatialAccepts(vals.spatial, vals.camera)
    /\ EntityMemoryAccepts(vals.entity_memory)
    /\ IdentityMatcherKnown(vals.entity_memory)
    /\ PublisherAccepts(vals.activity_stream)
    /\ BrokerAccepts(vals.activity_stream)

Finite(vals) == \A p \in Paths : ValueAt(vals, p)[1] \notin {"nan", "inf"}

\* A request without a limit is served: _resolve_limit.
DefaultPagesServed(vals) ==
    \A s \in {"api", "timeline"} :
        vals[s].default_limit[2] \in 1..vals[s].maximum_limit[2]

\* The listener waits between reconnections, at most for its maximum: _run.
ReconnectionsWait(vals) ==
    vals.activity_stream.reconnect_initial_seconds[2]
        \in 1..vals.activity_stream.reconnect_max_seconds[2]

\* A retry waits, at most for its maximum and never less than the one before:
\* compute_backoff_seconds.
RetriesWait(vals) ==
    LET delay == vals.notifications.initial_backoff_seconds[2]
    IN  /\ delay \in 1..vals.notifications.max_backoff_seconds[2]
        /\ delay * vals.notifications.backoff_multiplier[2] >= delay

\* Retention keeps every row for a day or more.
RowsKept(vals) ==
    \A d \in DOMAIN RetentionDomains :
        \A k \in DOMAIN RetentionDomains[d] \ {"enabled"} :
            vals.ops.retention[2][d][2][k][2] >= 1

\* Retention that deletes has a domain to delete from.
DeletionHasDomain(vals) ==
    vals.ops.retention[2].enabled[2] /\ ~vals.ops.retention[2].dry_run[2] =>
        \E d \in DOMAIN RetentionDomains : vals.ops.retention[2][d][2].enabled[2]

\* The timeline grants the consumer's catch-up its page of at most 100 events.
CatchUpServed(vals) ==
    vals.alerts.enabled = Bool(TRUE) =>
        \/ vals.timeline.maximum_limit[2] >= 100
        \/ vals.alerts.startup_catchup_limit[2] <= vals.timeline.maximum_limit[2]

\* The console asks for pages of 100 events when it recovers, of 50 when it
\* starts, and for 50 zones.
ConsoleServed(vals) ==
    vals.timeline.maximum_limit[2] >= 100 /\ vals.api.maximum_limit[2] >= 50

\* uvicorn knows every level of the loader by its name but one.
ServerLogs(vals) == vals.logging.level # Text("NOTSET")

\* The demands of the running services that the values do not meet.
Demand(name, met) == IF met THEN {} ELSE {name}

Unmet(vals) ==
    UNION {Demand("default_page", DefaultPagesServed(vals)),
           Demand("reconnection", ReconnectionsWait(vals)),
           Demand("retry", RetriesWait(vals)),
           Demand("keep_time", RowsKept(vals)),
           Demand("deletion_domain", DeletionHasDomain(vals)),
           Demand("catch_up_page", CatchUpServed(vals)),
           Demand("console_page", ConsoleServed(vals)),
           Demand("server_log", ServerLogs(vals))}

\* Those that _validate has no rule for.
NotValidated == {"catch_up_page", "console_page", "server_log"}

\* The rules of the loader and the demands of the two processes are written
\* twice.  A configuration that the loader accepts is refused by no constructor,
\* and, unless it holds a NaN or an infinity, the running services get what
\* they ask of it.  Except three things: with timeline.maximum_limit below 100
\* the catch-up of the consumer may fail, with it or api.maximum_limit small
\* the pages that the console asks for do, and logging.level NOTSET ends the
\* API process before it serves.
AcceptedIsUsable ==
    stage = "accepted" =>
        ConstructorsAccept(values) /\ (Finite(values) => Unmet(values) \subseteq NotValidated)
=============================================================================
