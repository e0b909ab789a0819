SPECIFICATION FairMuxSpec
CONSTANTS
  Txns <- MCTxns
  PortTxns <- MCPortTxns
  EgaTxns <- MCEgaTxns
  ZeroTxn <- MCZeroTxn
  Word = {0, 1}
  ZeroWord = 0
  SYNC_STAGES = 2
INVARIANTS
  Handshake
  CrossingsSettled
  AnswersOwn
PROPERTIES
  ImplementsTxnPort
  EveryTxnEnds
