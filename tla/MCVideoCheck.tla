----------------------------- MODULE MCVideoCheck -----------------------------
(***************************************************************************)
(* Links of every site, some of which lead to another one; videos with up  *)
(* to three tracks of subtitles; texts with technical and repeated lines.  *)
(***************************************************************************)
EXTENDS VideoCheck

To(host, path, ext) == [host |-> host, path |-> path, ext |-> ext, scheme |-> TRUE]

Watch == To("youtube", "watch", "none")
Short == To("youtu_be", "id", "none")
Channel == To("youtube", "channel", "none")
OnDrive == To("drive", "file_d", "none")
ById == To("drive", "id_query", "none")
Folder == To("drive", "folder", "none")
Docs == To("docs", "document", "none")
Shared == To("dropbox", "file", "video")
SharedFolder == To("dropbox", "folder", "none")
Film == To("other", "page", "video")
Shortened == To("other", "page", "none")
Vimeo == To("vimeo", "page", "none")
Bare == [Watch EXCEPT !.scheme = FALSE]

MCLink == {Watch, Short, Channel, OnDrive, ById, Folder, Docs, Shared, SharedFolder,
           Film, Shortened, Vimeo, Bare}
MCTarget ==
    [l \in MCLink |->
        CASE l = Short -> {Watch}
          [] l = Shortened -> {OnDrive, Shared, Watch, Channel, Vimeo, Shortened}
          [] l = ById -> {ById, OnDrive, Folder}
          [] l = OnDrive -> {OnDrive, Docs}
          [] l = Shared -> {Shared, SharedFolder}
          [] OTHER -> {l}]

MCNoLink == To("none", "none", "none")

Sub(lang, source) == [lang |-> lang, source |-> source]
MCTracks ==
    {{}, {Sub("en", "manual"), Sub("ru", "auto"), Sub("ru", "manual")},
     {Sub("kk", "auto"), Sub("tr", "manual"), Sub("en", "auto")},
     {Sub("kk", "manual")}}
MCText ==
    {<<>>, <<"header">>, <<"header", "a", "time", "a", "time", "a">>, <<"a", "b">>,
     <<"header", "a", "time", "a", "b", "c">>, <<"a", "b", "c", "d">>}
=============================================================================
