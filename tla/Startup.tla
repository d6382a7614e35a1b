-------------------------------- MODULE Startup --------------------------------
(* main, from the command line to the open listener: the flags, the configuration   *)
(* file that package yaml reads into a Config, its validation and its defaults, and   *)
(* the routes.  The file is octets from elsewhere, or what Marshal wrote.               *)
EXTENDS Yaml, Router

CONSTANTS Launches,    \* files to start with, and how: [text, args, assets], os.Args[1:] and
                       \* what AssetDescriptors returns in some build, a sequence of paths
          CommonLine,  \* the command line with any other file
          ConfigFile   \* the name of the file; no other file exists

VARIABLES args,
          assets,
          main,    \* how far main is, or how it ended
          flags,   \* flagConfigFile and flagPort
          config
startVars == <<args, assets, main, flags, config>>
vars == <<yamlVars, startVars, routerVars>>

-----------------------------------------------------------------------------
(* The command line.                                                          *)

NoFlags == [config |-> "", port |-> 8080, error |-> ""]
ShorthandOf == ("c" :> "config") @@ ("p" :> "port")

\* Flag.Set, which takes integers of base 8, 10 and 16.
SetFlag(f, name, text) ==
    IF name = "port" /\ ~IsInteger(text) THEN [f EXCEPT !.error = "invalid argument"]
    ELSE [f EXCEPT ![name] = IF name = "port" THEN IntegerOf(text) ELSE text]

\* --name=value; no flag here is a Boolean that could do without the value.
LongFlag(f, arg) ==
    LET body == From(arg, 3)
        equals == PlaceOf(body, {"="})
        name == SubSeq(body, 1, equals - 1)
    IN  IF CharAt(body, 1) \in {"-", "="} THEN [f EXCEPT !.error = "bad flag syntax"]
        ELSE IF name = "help" THEN [f EXCEPT !.error = "help requested"]
        ELSE IF name \notin {"config", "port"} THEN [f EXCEPT !.error = "unknown flag"]
        ELSE IF equals > Len(body) THEN [f EXCEPT !.error = "flag needs an argument"]
        ELSE SetFlag(f, name, From(body, equals + 1))

\* -c value or -cvalue: the values of both flags take all that is left of the argument.
Shorthand(f, arg, next) ==
    LET c == CharAt(arg, 2)
    IN  IF c = "h" THEN [f EXCEPT !.error = "help requested"]
        ELSE IF c \notin DOMAIN ShorthandOf THEN [f EXCEPT !.error = "unknown shorthand flag"]
        ELSE IF Len(arg) > 2 THEN SetFlag(f, ShorthandOf[c], From(arg, 3))
        ELSE IF next = <<>> THEN [f EXCEPT !.error = "flag needs an argument"]
        ELSE SetFlag(f, ShorthandOf[c], Head(next))

\* parseArgs: flags may follow other arguments, until "--".
RECURSIVE ParseArgs(_, _)
ParseArgs(f, list) ==
    LET arg == Head(list)
        next == Tail(list)
    IN  IF list = <<>> \/ f.error # "" THEN f
        ELSE IF CharAt(arg, 1) # "-" \/ Len(arg) = 1 THEN ParseArgs(f, next)
        ELSE IF arg = "--" THEN f
        ELSE IF CharAt(arg, 2) = "-" THEN ParseArgs(LongFlag(f, arg), next)
        ELSE ParseArgs(Shorthand(f, arg, next),
                       IF Len(arg) = 2 /\ next # <<>> THEN Tail(next) ELSE next)

-----------------------------------------------------------------------------
(* The configuration.                                                         *)

\* A field of a struct, and the key that its tag gives it.
Tagged(key, type) == [key |-> key, type |-> type]

\* What a mapping may set, by keys; no field here is private, inline or without a tag.
GetStructInfo(fields) ==
    StructType([key \in {fields[i].key : i \in DOMAIN fields} |->
                   fields[CHOOSE i \in DOMAIN fields : fields[i].key = key].type])

AWSAuth == GetStructInfo(<<Tagged("access_key", StringType), Tagged("secret_key", StringType),
                           Tagged("token", StringType), Tagged("region", StringType)>>)
Auth == GetStructInfo(<<Tagged("username", StringType), Tagged("password", StringType)>>)
Config == GetStructInfo(<<Tagged("public_bucket", StringType), Tagged("archive_bucket", StringType),
                          Tagged("jpeg_compression", IntType), Tagged("base_url", StringType),
                          Tagged("aws", AWSAuth), Tagged("auth", Auth)>>)

Regions == {"us-gov-west-1", "us-east-1", "us-west-1", "us-west-2", "eu-west-1", "ap-southeast-1",
            "ap-southeast-2", "ap-northeast-1", "sa-east-1", "cn-north-1"}

\* validateConfig: what is wrong, and what it makes of the rest.
Complaint(c) ==
    CASE c.public_bucket = String("") -> "No public bucket given"
      [] String("") \in {c.aws.struct.access_key, c.aws.struct.secret_key} -> "AWS configuration not given"
      [] c.aws.struct.region.text \notin Regions \cup {""} -> "AWS region not valid"
      [] OTHER -> ""

Or(setting, default) == IF setting \in {String(""), Scalar("int", "0")} THEN default ELSE setting

WithDefaults(c) ==
    [c EXCEPT !.jpeg_compression = Or(@, Scalar("int", "80")), !.base_url = Or(@, String("/")),
              !.aws.struct.region = Or(@, String("us-west-1"))]

-----------------------------------------------------------------------------
(* The routes.                                                                *)

Bytes(text) == [i \in 1..Len(text) |-> Code(CharAt(text, i))]
IsTemplate(path) == From(path, LargestOf({1, Len(path) - 4})) = ".tmpl"

RoutesOf(paths) ==
    LET served == SelectSeq(paths, LAMBDA path : ~IsTemplate(path))
    IN  <<Get(Bytes("/"), "index")>>
        \o [i \in DOMAIN served |-> Get(Bytes("/" \o served[i]), served[i])]
        \o <<Handle(Bytes("/*"), "authorized")>>

-----------------------------------------------------------------------------
(* The program.                                                               *)

Init ==
    /\ \/ YamlInit /\ args = CommonLine /\ assets = <<>>
       \/ \E launch \in Launches :
              ToUnmarshal(Encode(launch.text), 512) /\ args = launch.args /\ assets = launch.assets
    /\ main = "flags" /\ flags = NoFlags /\ config = Zero(Config).struct
    /\ RouterInit

Prepare == r = Unwritten /\ Marshalling /\ UNCHANGED <<startVars, routerVars>>

\* CommandLine is set for ExitOnError.
ParseFlags ==
    /\ main = "flags" /\ r # Unwritten
    /\ flags' = ParseArgs(NoFlags, args)
    /\ main' = IF flags'.error = "" THEN "open" ELSE "usage"
    /\ UNCHANGED <<yamlVars, args, assets, config, routerVars>>

\* loadConfig up to the call of Unmarshal; reading a file may fail that could be opened.
OpenConfig ==
    /\ main = "open"
    /\ \/ flags.config = ConfigFile /\ main' = "decode"
       \/ main' = "refused"
    /\ UNCHANGED <<yamlVars, args, assets, flags, config, routerVars>>

DecodeConfig == main = "decode" /\ Unmarshalling /\ UNCHANGED <<startVars, routerVars>>

\* A panic that is not one of fail goes on behind handleErr.
LoadConfig ==
    /\ main = "decode" /\ result # NoResult
    /\ \E read \in {IF Failed(p.s) THEN Fail(Zero(Config), p.s.error)
                   ELSE Decode(events, Config, Zero(Config))} :
           /\ main' = IF read.error = "" THEN "validate"
                      ELSE IF IsPrefix("panic", read.error) THEN "crashed" ELSE "refused"
           /\ config' = read.out.struct
    /\ UNCHANGED <<yamlVars, args, assets, flags, routerVars>>

ValidateConfig ==
    /\ main = "validate"
    /\ IF Complaint(config) = ""
       THEN main' = "routes" /\ config' = WithDefaults(config)
       ELSE main' = "refused" /\ UNCHANGED config
    /\ UNCHANGED <<yamlVars, args, assets, flags, routerVars>>

AddRoute ==
    /\ main = "routes" /\ Len(added) < Len(RoutesOf(assets))
    /\ Add(RoutesOf(assets)[Len(added) + 1])
    /\ UNCHANGED <<yamlVars, startVars>>

RoutesAdded ==
    /\ main = "routes" /\ Len(added) = Len(RoutesOf(assets))
    /\ main' = "listen"
    /\ UNCHANGED <<yamlVars, args, assets, flags, config, routerVars>>

\* graceful.Run: the port is taken, or none at all, and log.Fatal ends the program.
Listen ==
    /\ main = "listen"
    /\ \/ main' = "fatal"
       \/ flags.port \in 0..65535 /\ main' = "serving"
    /\ UNCHANGED <<yamlVars, args, assets, flags, config, routerVars>>

\* Some request has the table compiled; the others do it again, or find it done.
FirstRequest == main = "serving" /\ Compile /\ UNCHANGED <<yamlVars, startVars>>

Over == main \in {"usage", "refused", "crashed", "fatal", "serving"} /\ UNCHANGED vars

Next ==
    \/ Prepare \/ ParseFlags \/ OpenConfig \/ DecodeConfig \/ LoadConfig
    \/ ValidateConfig \/ AddRoute \/ RoutesAdded
    \/ Listen \/ FirstRequest \/ Over

Spec == Init /\ [][Next]_vars

-----------------------------------------------------------------------------
(* Properties.                                                                *)

(* What main serves with is what the file says, and has all that the comments of        *)
(* config.yaml call required: a value of the right kind is in its field, however it got      *)
(* into the mapping (in flow or block style, quoted, merged in, given twice), and what is      *)
(* not given has its default.  The reading of the file as a tree of maps, which shares no    *)
(* code with the one into a struct (mapping and mappingStruct of decode.go), says what is    *)
(* given.                                                                     *)
Defaults == ("jpeg_compression" :> Scalar("int", "80")) @@ ("base_url" :> String("/"))
            @@ ("region" :> String("us-west-1"))

Given(tree, key) ==
    IF "map" \in DOMAIN tree /\ String(key) \in DOMAIN tree.map THEN tree.map[String(key)] ELSE Null

\* `anew' is TRUE of a struct that only one mapping has filled.
Follows(c, type, tree, anew) ==
    \A key \in {k \in DOMAIN type.fields : type.fields[k].type # "struct"} :
        LET given == Given(tree, key)
            default == IF key \in DOMAIN Defaults THEN Defaults[key] ELSE Zero(type.fields[key])
            fits == "kind" \in DOMAIN given /\ given.kind = type.fields[key].type
        IN  /\ fits => c[key] = Or(given, default)
            /\ given = Null /\ anew => c[key] = default

ServesAsConfigured ==
    main = "serving" =>
        /\ String("") \notin {config.public_bucket, config.aws.struct.access_key,
                             config.aws.struct.secret_key}
        /\ config.aws.struct.region.text \in Regions
        /\ result.error = "" =>
               /\ Follows(config, Config, result.out, TRUE)
               /\ \A key \in {"aws", "auth"} :
                      LET within == Given(result.out, key)
                      IN  Follows(config[key].struct, Config.fields[key], within, within = Null)
=============================================================================
