--------------------------- MODULE MCAnnualCampaign -------------------------
\* Two languages of one source, as in the registry.
EXTENDS AnnualCampaign, TLC

CONSTANTS en, fr

BothLanguages == {en, fr}
LanguageSymmetry == Permutations(BothLanguages)
=============================================================================
