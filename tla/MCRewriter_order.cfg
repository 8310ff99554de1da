CONSTANTS
  QWidget = QWidget
  QFoo = QFoo
  p1 = p1
  p2 = p2
  p3 = p3
  p4 = p4
  f1 = f1
  f2 = f2
  ClassList = {QWidget}
  OtherClasses = {QFoo}
  Keys = {"class"}
  TemplateHeaders = {"tpl_class"}
  DeclPrefixes = {"none", "tpl_class"}
  ExportMacros = {}
  Paths = {p1, p2, p3, p4}
  Files = {f1, f2}
  Resolve <- MCResolve
  IsSource <- MCIsSource
  MaxStmts = 2
  MaxStmtsOf <- MCTwoStmts
  NoFile = NoFile
  MayBeUndecodable = {f2}
  MayBeReadOnly = {}
  TreeFiles = {f1, f2}

SPECIFICATION Spec

INVARIANT ForwardDeclsBecomeIncludes
