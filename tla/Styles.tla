------------------------------- MODULE Styles -------------------------------
(***************************************************************************)
(* The style sheet of an xlsx package (io/styles.rs): what the index of a   *)
(* cell means, and the records appended for formats the file did not have.  *)
(* A format is a record of a few attributes; a record of the file holds, in *)
(* "carry" and "rest", what the engine does not model.                      *)
(***************************************************************************)
EXTENDS Integers, FiniteSets, SequencesExt, FiniteSetsExt, Functions

CONSTANTS
    BuiltinCodes,   \* number formats known by number: identifier -> code
    Colours         \* the fills that name a colour of their own, not of a theme

General == "General"
FirstCustom == 164
NoStyle == -1

Plain == [look |-> "plain", fill |-> "none", edges |-> "none", code |-> General, align |-> "none"]

(* A part with the records every xlsx has at index 0. *)
DefaultStyles ==
    [fonts |-> <<[look |-> "plain", carry |-> "Calibri"]>>,
     fills |-> <<"none", "gray125">>,
     borders |-> <<"none">>,
     numFmts |-> <<>>,
     xfs |-> <<[num |-> 0, font |-> 0, fill |-> 0, border |-> 0, align |-> "none", rest |-> "none"]>>,
     dxfs |-> <<>>]
NoStyles == [DefaultStyles EXCEPT !.fonts = <<>>, !.fills = <<>>, !.borders = <<>>, !.xfs = <<>>]

At(seq, index, default) == IF index + 1 \in DOMAIN seq THEN seq[index + 1] ELSE default

(* The codes of the file by identifier.  Those of its differential formats  *)
(* are read along with them, under the identifier 0 they are written with.  *)
CustomCodes(part) ==
    LET coded == SelectSeq(part.dxfs, LAMBDA d : d.code # General) IN
    IF coded = <<>> THEN part.numFmts ELSE (0 :> Last(coded).code) @@ part.numFmts

CodeOf(part, id) ==
    CASE id = 0 -> General
      [] id \in DOMAIN CustomCodes(part) \ {0} -> CustomCodes(part)[id]
      [] id \in DOMAIN BuiltinCodes \ (DOMAIN CustomCodes(part) \cup {0}) -> BuiltinCodes[id]
      [] OTHER -> General

(* A colour of a theme is read as none. *)
Seen(fill) == IF fill \in Colours THEN fill ELSE "none"

FormatOfXf(part, xf) ==
    [look |-> At(part.fonts, xf.font, [look |-> "plain"]).look,
     fill |-> Seen(At(part.fills, xf.fill, "none")),
     edges |-> At(part.borders, xf.border, "none"),
     code |-> CodeOf(part, xf.num),
     align |-> xf.align]

FormatFor(part, s) == IF s + 1 \in DOMAIN part.xfs THEN FormatOfXf(part, part.xfs[s + 1]) ELSE Plain

----------------------------------------------------------------------------
(* Additions.  A format asked for twice gets the index it got first.        *)

NoAdditions ==
    [fonts |-> <<>>, fills |-> <<>>, borders |-> <<>>, numFmts |-> <<>>, xfs |-> <<>>, dxfs |-> <<>>, assigned |-> <<>>]

AssignedIndex(part, additions, format) ==
    Len(part.xfs) + (CHOOSE i \in DOMAIN additions.assigned : additions.assigned[i] = format) - 1

Carried(part, base) ==
    At(part.fonts, IF base + 1 \in DOMAIN part.xfs THEN part.xfs[base + 1].font ELSE 0, [carry |-> "none"]).carry

IdsOf(codes, code) == {id \in DOMAIN codes : codes[id] = code}

NextCode(part, additions) == Max({FirstCustom} \cup {id + 1 : id \in DOMAIN CustomCodes(part) \cup DOMAIN additions.numFmts})

(* The identifier of a code: a known one, one of the file, one of those     *)
(* just added, or the next.                                                 *)
NumFmtId(part, additions, code) ==
    LET known == <<BuiltinCodes, CustomCodes(part), additions.numFmts>>
        having == {i \in DOMAIN known : IdsOf(known[i], code) # {}}
    IN CASE code = General -> 0
         [] code # General /\ having # {} -> Min(IdsOf(known[Min(having)], code))
         [] OTHER -> NextCode(part, additions)

Pushed(records, value, default) == IF value = default THEN records ELSE Append(records, value)
PushedId(count, value, default) == IF value = default THEN 0 ELSE count

WithIndex(part, additions, format, base) ==
    LET id == NumFmtId(part, additions, format.code) IN
    IF Contains(additions.assigned, format) THEN additions
    ELSE [additions EXCEPT
            !.fonts = Append(@, [look |-> format.look, carry |-> Carried(part, base)]),
            !.fills = Pushed(@, format.fill, "none"),
            !.borders = Pushed(@, format.edges, "none"),
            !.numFmts = IF id = NextCode(part, additions) THEN @ @@ (id :> format.code) ELSE @,
            !.xfs = Append(@, [num |-> id,
                               font |-> Len(part.fonts) + Len(additions.fonts),
                               fill |-> PushedId(Len(part.fills) + Len(additions.fills), format.fill, "none"),
                               border |-> PushedId(Len(part.borders) + Len(additions.borders), format.edges, "none"),
                               align |-> format.align, rest |-> "none"]),
            !.assigned = Append(@, format)]

(* Every insertion is an append, so the indices of the file stay.           *)
Appended(collection, items) == collection \o items
PatchedStyles(part, additions) ==
    [fonts |-> Appended(part.fonts, additions.fonts),
     fills |-> Appended(part.fills, additions.fills),
     borders |-> Appended(part.borders, additions.borders),
     numFmts |-> part.numFmts @@ additions.numFmts,
     xfs |-> Appended(part.xfs, additions.xfs),
     dxfs |-> Appended(part.dxfs, additions.dxfs)]
=============================================================================
