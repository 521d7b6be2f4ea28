\* One operator; a full-site job and a shard, or the shards of both languages; hc or phac.
SPECIFICATION Spec
CONSTANTS
    Jobs = {1, 2}
    en = en
    fr = fr
    Seeds <- BothLanguages
    Reporters = {cli}
    FreshOnly = TRUE
    MaxFresh = 1
    MaxRetries = 1
    EditBound = 1
SYMMETRY LanguageSymmetry
INVARIANTS TypeOK ShardKeysUnique 
 
CHECK_DEADLOCK FALSE
