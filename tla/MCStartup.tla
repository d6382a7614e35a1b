------------------------------ MODULE MCStartup ------------------------------
(* Small instances of Startup: values to write, texts and octets to read, files to start *)
(* with.                                                                      *)
EXTENDS Startup

TextsUpTo(n, chars) ==
    UNION {{Joint(\o, LAMBDA i : f[i], "", 1, k) : f \in [1..k -> chars]} : k \in 0..n}

Repeat(text, n) == Joint(\o, LAMBDA i : text, "", 1, n)

\* Texts that need a style, or are something else than a string.
Words == {"true", "~", "null", "12", "-0x1", "1.5", "1:30", "12_0:59.5", "a: b", "a #b", "--- a", "...",
          "[a]", "&a", "^", "a\tb", "\"", "\\", "a\n\n\nb\n", "\n a\n", "a b c d", "a  b 'c d", "a\nb c d\n",
          "^\n", "^a\nb", "$a b\"\n", Repeat("^", 65)}
         \cup {Repeat("abcdefg ", 10) \o "abc def"}

MCStrings == {String(text) : text \in TextsUpTo(2, {"a", " ", LF, ":", "#", "-", "'"}) \cup Words}
MCScalars == MCStrings \cup {Null, Scalar("int", "-12"), Scalar("bool", "true")}

MCValues ==
    MCScalars \cup {List(<<v, v>>) : v \in MCScalars} \cup {Mapping(v :> v) : v \in MCScalars}
    \cup {Mapping((v :> List(<<v>>)) @@ (String("k") :> Mapping(String("x") :> v))) : v \in MCStrings}
    \cup {List(<<List(<<>>), Mapping(<<>>), List(<<List(<<v>>), Mapping(v :> Mapping(<<>>))>>)>>) : v \in MCStrings}

Writing(v, canonical, indent, width) ==
    [value |-> v, canonical |-> canonical, indent |-> indent, width |-> width]

\* In canonical style, which Marshal never asks for, null comes back as a string.
MCWritings ==
    {Writing(v, FALSE, 0, 0) : v \in MCValues} \cup {Writing(v, FALSE, 4, 9) : v \in MCValues}
    \cup {Writing(v, TRUE, 2, 9) : v \in MCStrings \cup {List(<<v, v>>) : v \in MCStrings}}

\* Short texts of what the scanner has to tell apart, and longer ones of every construct.
MCTexts ==
    TextsUpTo(5, {"a", " ", LF, ":", "-", "?", "[", "]"})
    \cup {"%YAML 1.1\n%TAG !e! tag:e.com,2000:\n--- !e!x &a\n- *a\n- !!str b # c\n...\n",
          "a: |1+\n  b\n\n\nc: >-\n  d\n  e\n\n   f\n", "{a: [b, {c: d}], ? e, f}\n",
          "? a\n: - b\n  - c\n-", "- - a\n  - b\n- c: d\n  e:\n  - f\n", "'a\n\n  b''c' : \"d\\x41\\\n  e\"",
          "a: &x {b: 1}\nc: {<<: *x, d: 0b11}\ne: {<<: [*x, {b: 2}]}", "&x [*x]", "*x", "[? a : b, c: d]",
          "[a, b: c]: d", "a\nb: c", "a:\n\tb", "!<tag:x> a", "! a", "%FOO\n--- a", "--- a\n--- b\n",
          "a: b\n c: d", " a: \"\n\"b", "\"a\n--- b\"", "{a, b}: {? : c}", "[? : a]", "? ? a\n: b",
          "%YAML 1.2\n--- a", "%TAG ! x\n--- a", "!a!b c", "!!int x", "? [a]\n: b", "<<: a", "!%41%C3%A9 a",
          "\"\\q\"", "\"\\uD800\"", "|x\n a", "[\n a\n]\n b: c", "a: 'b",
          "$$a: b\n- c\n", "$$a: b\nc: d\n", "$$- a\n  - b\n", "$$", "$$a", "$$\n\n# a\nb", "a: $b\n$c: d\n"}

\* Octets of whole characters, and of what is none, over raw buffers of a few octets.
Pieces == {<<97>>, <<10>>, <<195, 169>>, <<226, 130, 172>>, <<240, 159, 152, 128>>, <<194, 160>>,
           <<128>>, <<195>>, <<192, 128>>, <<194, 133, 97>>, <<194, 128>>, <<226, 130>>, <<224, 159, 191>>,
           <<237, 159, 191>>, <<237, 160, 128>>, <<239, 191, 191>>, <<244, 144, 128, 128>>, <<240, 143, 191, 191>>,
           <<248>>, <<255>>, <<0>>, <<7>>, <<127>>, <<239, 187>>}
Octets3 == {x \o y \o z : x \in Pieces \cup {BOM.UTF8}, y \in Pieces \cup {<<>>},
                          z \in {<<>>, <<97>>, <<195>>, <<226, 130, 172>>, <<240, 159, 152, 128>>}}

\* Configuration files of three parts: the bucket, what AWS needs, and another setting.
Files ==
    {bucket \o aws \o other :
        bucket \in {"", "public_bucket: b\n", "public_bucket: ''\n", "public_bucket: [b]\n", "public_bucket: 12\n"},
        aws \in {"aws: {access_key: k, secret_key: s}\n", "aws: {access_key: k, secret_key: ~}\n", "aws: k\n",
                "aws:\n  access_key: k\n  secret_key: s\n  region: eu-west-1\n",
                "aws: {access_key: k, secret_key: s, region: mars}\n",
                "aws: {access_key: k}\naws: {secret_key: s}\n",
                "x: &k {access_key: k, region: ''}\naws: {<<: *k, secret_key: s}\n"},
        other \in {"", "jpeg_compression: 7\n", "jpeg_compression: \"7\"", "jpeg_compression: ~", "base_url: \"/x/\"\n",
                  "auth: {username: u}\n", "x: {y: *z}\n", "b: &u {username: u}\nauth: {<<: *u}", "base_url: a: b"}}

MinimalFile == "public_bucket: b\naws: {access_key: k, secret_key: s}\n"
MCCommonLine == <<"-c", "imagehost.yaml">>
CommandLines ==
    {MCCommonLine, <<>>, <<"-cimagehost.yaml", "-p80">>, <<"--config=imagehost.yaml", "x", "--port=0x50">>,
     <<"-c", "other.yaml">>, <<"-c">>, <<"--config", "imagehost.yaml">>, <<"-", "-c", "imagehost.yaml", "--", "-x">>,
     <<"-p", "65536", "-c", "imagehost.yaml">>, <<"--port=-1", "--config=imagehost.yaml">>, <<"--port=">>, <<"-h">>,
     <<"--help">>, <<"--=x">>, <<"-x">>, <<"--verbose">>, <<"-p", "08", "-c", "imagehost.yaml">>,
     <<"-c", "other.yaml", "-c", "imagehost.yaml">>}
MCConfigFile == "imagehost.yaml"
AssetLists ==
    {<<>>, <<"css/page.css", "base.tmpl", "css/page.css.map", "js/app.js">>,
     <<"js/app.js", "css/page.css.map", "css/page.css", "index.tmpl">>, <<"fonts/a.eot", "css">>}

MCHandlers == {"index", "authorized"} \cup {path \in UNION {Range(list) : list \in AssetLists} : ~IsTemplate(path)}
MCAsked ==
    {Bytes("/" \o path) : path \in UNION {Range(list) : list \in AssetLists}
                                    \cup {"", "upload", "upload/", "c", "css/", "css/page.css.x"}}

Launch(text, args_, assets_) == [text |-> text, args |-> args_, assets |-> assets_]

MCLaunches ==
    {Launch(text, MCCommonLine, <<"css/page.css">>) : text \in Files}
    \cup {Launch(MinimalFile, line, <<>>) : line \in CommandLines}
    \cup {Launch(MinimalFile, MCCommonLine, list) : list \in AssetLists}

MCStreams == {[octets |-> octets, size |-> size] : octets \in Octets3, size \in {4, 5}}

\* Texts in UTF-16, the order of the octets of a character given by a mark.
Utf16(text, encoding) ==
    BOM[encoding]
    \o Joint(\o, LAMBDA i : LET code == Code(CharAt(text, i))
                             IN  IF encoding = "UTF16LE" THEN <<code % 256, code \div 256>>
                                 ELSE <<code \div 256, code % 256>>,
             <<>>, 1, Len(text))

Utf16Streams == {[octets |-> Utf16(text, encoding), size |-> 512] :
                    text \in {"^", "^^", "a: b"}, encoding \in {"UTF16LE", "UTF16BE"}}
NoTexts == {}
=============================================================================
