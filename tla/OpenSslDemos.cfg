CONSTANT Program = {"rsatt", "ttatt", "rsasign", "osslcli"}
SPECIFICATION Spec
CHECK_DEADLOCK FALSE
INVARIANTS HonestOutput OkMeansSigned NoStaleUse NothingLeft TypeOK
