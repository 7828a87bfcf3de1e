------------------------------ MODULE MCConfig ------------------------------
(***************************************************************************)
(* Small configurations: a main file, and two files it may include.        *)
(***************************************************************************)
EXTENDS ConfigMeaning

L(key, value) == [key |-> key, value |-> value]
W(parts, mode) == [parts |-> parts, mode |-> mode]
Both == {"Package", "Database"}

Options == L("Header", "options")
Core == L("Header", "core")
Extra == L("Header", "extra")
Mirror == L("Server", <<"file://", "srv", "$repo", "$arch">>)
Required == L("SigLevel", <<W(Both, "Required"), W({"Database"}, "Never")>>)
Trust == L("SigLevel", <<W({"Package"}, "TrustAll"), W({"Package"}, "Optional")>>)
Wrong == L("SigLevel", <<W(Both, "Sometimes")>>)

Blank == L("Blank", None)

MainLines == {L("Include", <<"a", "b">>), L("Include", <<"b", "gone">>), Core, Mirror}
ALines == {Options, Extra, Wrong, Trust, L("Include", <<"main">>)}
BLines == {<< >>, <<L("RootDir", <<"b">>), L("XferCommand", <<"curl">>), Blank,
                   L("Architecture", <<"auto", "i686">>), Required, L("Color", None)>>}

\* Half of the main files begin with [options].
MCTexts ==
    {[main |-> start \o m, a |-> a, b |-> b] :
       start \in {<<Options, L("RootDir", <<"main">>), Blank, L("XferCommand", <<"wget">>)>>,
                  << >>},
       m \in BoundedSeq(MainLines, 3), a \in BoundedSeq(ALines, 2), b \in BLines}

MCPresets ==
    {NewConfig, [NewConfig EXCEPT !.str["DBPath"] = <<"db">>, !.list["CacheDir"] = <<<<"c">>>>]}
MCSysroots == {<<"sys">>}

ASSUME MCNames == NoVariables /\ SysrootApart
=============================================================================
