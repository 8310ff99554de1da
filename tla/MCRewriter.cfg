CONSTANTS
  QWidget = QWidget
  QFoo = QFoo
  p1 = p1
  p2 = p2
  p3 = p3
  p4 = p4
  f1 = f1
  f2 = f2
  ClassList = {QWidget}
  OtherClasses = {QFoo}
  Keys = {"class"}
  TemplateHeaders = {"tpl_class"}
  DeclPrefixes = {"none", "friend", "tpl_class"}
  ExportMacros = {}
  Paths = {p1, p2, p3, p4}
  Files = {f1, f2}
  Resolve <- MCResolve
  IsSource <- MCIsSource
  MaxStmts = 3
  MaxStmtsOf <- MCMaxStmtsOf
  NoFile = NoFile
  MayBeUndecodable = {f2}
  MayBeReadOnly = {f2}
  TreeFiles = {f1, f2}

SPECIFICATION Spec

INVARIANT TypeOK
 
INVARIANT CompletedRunIsOneRewrite
PROPERTY RefinesAbstract
