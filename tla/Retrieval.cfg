SPECIFICATION Spec
CONSTANTS
  None = None
  Workers = {"w1", "w2"}
  ChunkIds = {"a", "b", "c"}
  Texts = {"ta", "tb", "tc", "told"}
  Inputs <- Questions
  KConst = 60
  RetrieverK = 3
  FusedK = 4
  MmrK = 2
  TopK = 2
  Lambda = 7
  SimQuery <- Nearness
  Sim <- Likeness
  Scores = {1, 2}
  BgeNames = {"bge", "BAAI/bge-reranker-base", "bge-reranker-base"}
  CohereNames = {"cohere", "rerank-3.5"}
  MaxReranks = 2
INVARIANTS BothBeatEither NoneDominated HonestContext AlertTells
