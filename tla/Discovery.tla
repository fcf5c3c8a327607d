------------------------------- MODULE Discovery -------------------------------
(***************************************************************************)
(* What the agent finds in the configuration of nginx or Angie            *)
(* (internal/topsrv/nginx/discover.go): its log_formats and the access     *)
(* logs with the format that each of them names.                           *)
(*                                                                         *)
(* The configuration is a function from the readable files to sequences of *)
(* directives; "main" is the file that the server runs with.  The search   *)
(* is by line, so a directive that is commented out is one like any other, *)
(* and the format of an access_log is the word after its path.  A          *)
(* log_format says whether it is JSON, and under which key each of its     *)
(* variables is; one that is not in single quotes is read as having no     *)
(* parts.                                                                  *)
(***************************************************************************)
EXTENDS Integers, FiniteSets, SequencesExt

NoFormat == [json |-> FALSE, name |-> <<>>]

Text(vars) == [json |-> FALSE, name |-> [v \in vars |-> v]]

Vars(format) == DOMAIN format.name

OfKind(content, kind) == SelectSeq(content, LAMBDA d : d.kind = kind)

\* every include is replaced by the files that it matches, as far as they can
\* be read
resolveIncludes(files) ==
    LET content[f \in DOMAIN files] ==
            FlattenSeq([i \in DOMAIN files[f] |->
                LET d == files[f][i]
                IN  IF d.kind # "include" THEN <<d>>
                    ELSE LET found == SelectSeq(d.matches, LAMBDA g : g \in DOMAIN files)
                         IN  FlattenSeq([j \in DOMAIN found |-> content[found[j]]])])
    IN  content["main"]

\* Of two formats of one name the later counts, but the name stays marked as
\* that of a JSON format once one of them was: JSONFormats is only ever set.
extractLogFormats(content) ==
    LET defs == SelectSeq(OfKind(content, "log_format"),
                          LAMBDA d : d.format # NoFormat)
    IN  [formats |-> [n \in {d.name : d \in ToSet(defs)} |->
                        defs[SelectLastInSeq(defs, LAMBDA d : d.name = n)].format],
         json    |-> {d.name : d \in {e \in ToSet(defs) : e.format.json}}]

extractAccessLogs(content) ==
    SelectSeq(OfKind(content, "access_log"), LAMBDA d : d.path # "off")

DiscoverConfig(files) ==
    LET content == resolveIncludes(files)
        found   == extractLogFormats(content)
    IN  [formats |-> found.formats, json |-> found.json,
         logs    |-> extractAccessLogs(content)]
=============================================================================
