------------------------------- MODULE MCUpload -------------------------------
(* Instances of Upload for TLC.                                               *)
EXTENDS Upload

Short(v) == [type |-> "short", count |-> 1, value |-> v]

Post(filename, format, exif, tag) ==
    [form |-> "upload", filename |-> filename,
     file |-> [format |-> format, exif |-> exif, tag |-> tag]]

Png(filename) == Post(filename, "png", "critical", NilTag)
Jpeg(filename, v) == Post(filename, "jpeg", "usable", Short(v))

\* Two pictures that camera software gives the same name, a file that is no
\* image, and one the sanitizer panics on.
FewInputs ==
    { Png(<<"cat", "png">>),
      Jpeg(<<"cat", "png">>, 6),
      Jpeg(<<"dog", "jpeg">>, 0),
      Post(<<"cat", "png">>, NotAnImage, "critical", NilTag) }

\* Every kind of form and of file.
AllInputs ==
    {[form |-> form, filename |-> <<"cat", "png">>, file |-> file] :
        form \in Forms,
        file \in {[format |-> format, exif |-> "critical", tag |-> NilTag] :
                      format \in (Decodable \cup {NotAnImage}) \ {"jpeg"}}
                 \cup {[format |-> "jpeg", exif |-> exif, tag |-> tag] :
                      exif \in ExifOutcome, tag \in Tag}}
=============================================================================
