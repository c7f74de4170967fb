-------------------------- MODULE MCCertificateCheck --------------------------
(***************************************************************************)
(* An application with up to two attachments, whose unit may give up the   *)
(* first call and make the second while the service still works on both,   *)
(* and one file the orchestrator's worker asks about.                      *)
(***************************************************************************)
EXTENDS CertificateCheck

Fig(value, line, near) == [value |-> value, line |-> line, near |-> near]

MCDocument == {"band", "faint_band", "total", "points", "blank"}

MCPage ==
    [band |-> [marks |-> {"ielts", "trf", "overall_band", "overall", "band"},
               figures |-> <<Fig(19, "overall_band", {}), Fig(13, "overall_band", {})>>],
     faint_band |-> [marks |-> {"ielts", "trf", "overall", "band"},
                     figures |-> <<Fig(30, "date", {"number_or_date"})>>],
     total |-> [marks |-> {"toefl", "ets", "total_score", "score"},
                figures |-> <<Fig(25, "reading", {}), Fig(72, "total_score", {}),
                          Fig(14, "overall_near_band", {})>>],
     points |-> [marks |-> {"national", "kt", "points", "ent_letters"},
                 figures |-> <<Fig(30, "score_anchor", {"score", "section"}),
                               Fig(105, "target_anchor",
                                   {"final_header", "result", "score"}),
                               Fig(120, "other", {"number_or_date"})>>],
     blank |-> NoText]

MCFaint ==
    [d \in MCDocument |->
        IF d = "faint_band"
        THEN [marks |-> {}, figures |-> <<Fig(11, "line_end", {})>>] ELSE NoText]

Form(e, c, kinds) == [english |-> e, certificate |-> c, additional |-> NoDoc,
                      kinds |-> kinds]
Kinds(e, c) == [english |-> e, certificate |-> c]

MCForms ==
    [a |-> {Form("band", "points", Kinds("ielts_6", "ent")),
            Form("faint_band", "faint_band", Kinds("ielts_6", "ent")),
            Form("total", "total", Kinds("toefl_60_78", "nis_12")),
            Form("total", "blank", Kinds("ielts_6", "ent")),
            Form("band", "band", Kinds("toefl_60_78", "none")),
            [Form(NoDoc, "points", Kinds("none", "nis_12"))
                EXCEPT !.additional = "band"],
            Form(NoDoc, NoDoc, Kinds("none", "none"))}]

MCFile == {<<"file", "1">>}
MCCopy == [f \in MCFile |-> "points"]
MCFolder == [f \in MCFile |-> <<"folder", "1">>]
=============================================================================
