SPECIFICATION Spec
CONSTANTS
  Port = {"p", "q"}
  Ascii = {"a"}
  Wide = {"l"}
  Latin = "l"
  Paren <- MCParen
  MaxWritten = 3
  Program <- MCProgram
INVARIANTS EveryByteOnce DanglingNeedsCause
PROPERTIES PeekPredicts ImplementsStream
