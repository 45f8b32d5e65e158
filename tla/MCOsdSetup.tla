----------------------------- MODULE MCOsdSetup -----------------------------
(***************************************************************************)
(* Instances of OsdPipeline for TLC: files that leave out any of nine      *)
(* lines the pipeline depends on, and every file of up to three of the     *)
(* lines that are read in a way of their own.                              *)
(***************************************************************************)
EXTENDS OsdPipeline, SequencesExt

L(key, words) ==
  [key |-> key, words |-> words, quoted |-> FALSE, long |-> FALSE]

Optionals == <<L("aDev", <<1>>), L("displayEnable", <<1>>),
  L("display", <<0, 0>>), L("aplayEnable", <<1>>), L("aplayDev", <<2>>),
  L("pushVideoEnable", <<1>>), L("pushPort", <<8554>>),
  L("pushAudioEnable", <<1>>), L("outputFile", <<3>>)>>

Chosen(S) ==
  SelectSeq([i \in DOMAIN Optionals |-> <<i, Optionals[i]>>],
            LAMBDA x : x[1] \in S)

FeatureFiles ==
  {LET c == Chosen(S) IN <<L("vDev", <<7>>)>> \o [i \in DOMAIN c |-> c[i][2]] :
     S \in SUBSET DOMAIN Optionals}

Crops == {<<1, 2, 3, 4>>, <<9, 0, 3, 9>>, <<2, 2>>}

DisplayFiles ==
  {<<L("vDev", <<7>>), L("displayEnable", <<1>>), L("display", <<0>>),
     L("displayCorp", c), L("oImgPara", o)>> :
        c \in Crops, o \in {<<2, 9>>, <<5>>}}

Pieces == {
  L("#", <<1>>), L("", << >>), L(" ", << >>), L("typo", <<4>>),
  L("oRotate", <<2>>), L("oRotate", << >>), L("encType", <<0>>),
  L("encType", <<NaN>>), L("fileMaxDuration", <<10>>),
  L("fileMaxDuration", << >>), L("fileMaxDuration", <<3600>>),
  L("fileMaxDuration", <<-5>>),
  L("osdTextPara", <<1, 2, 3>>), L("osdTextPara", <<4, NaN, 5, 6, 7, 8, 9>>),
  [L("osdDevText", << >>) EXCEPT !.quoted = TRUE],
  L("osdDevText", <<5, 6>>), [L("osdDevText", <<5, 6>>) EXCEPT !.quoted = TRUE],
  L("displayEnable", <<5>>), L("displayEnable", <<NaN>>),
  [L("encFps", <<60>>) EXCEPT !.long = TRUE],
  [L("#", << >>) EXCEPT !.long = TRUE]}

MixedFiles == SeqOf(Pieces, 3)

MCFiles == FeatureFiles \cup DisplayFiles \cup MixedFiles

MCPlaneSizes == {<<4, 6>>, <<7, 3>>}
MCCameraSizes == {<<5, 5>>}
=============================================================================
